---- MODULE Spec2Model ----
(***************************************************************************)
(* A model of fortune-rs: the strfile binary codec (cookie/serializer.rs)  *)
(* and the quote store / weighted hierarchy (cookie.rs).                   *)
(*                                                                         *)
(* Representation choices:                                                 *)
(*  - a u64 is the sequence of its 8 bytes, most significant first, so     *)
(*    that `as u32`, to_be_bytes and the 32-bit truncation of the Homebrew *)
(*    layout are computed exactly and no value exceeds TLC's integers;     *)
(*  - a text is the sequence of its bytes (single-byte characters);        *)
(*  - an f64 probability is an exact rational <<"num", n, d>> or one of    *)
(*    the special values NaN and +infinity; the rounding error of the      *)
(*    handful of operations performed is many orders below the 1e-4        *)
(*    tolerance the properties use.                                        *)
(***************************************************************************)
EXTENDS Integers, Sequences, FiniteSets, TLC

VARIABLES
    pc,        \* position of the driver of the current specification
    jar,       \* a CookieJar (input of the codec, result of from_text)
    platform,  \* the SerializerType handed to to_bytes / from_bytes
    bytes,     \* a byte buffer (Vec<u8>)
    decoded,   \* outcome of Serializer::from_bytes
    detected,  \* outcome of Serializer::get_type_by_bytes
    host,      \* std::env::consts::OS of the running host
    text,      \* the content handed to CookieJar::from_text
    delim,     \* the delimiter handed to CookieJar::from_text
    items,     \* the argument of CookieCabinet::from_string_list
    built,     \* outcome of CookieCabinet::from_string_list
    cabinet,   \* the CookieCabinet (sequence of shelves)
    chosen,    \* outcome of CookieCabinet::choose
    ops,       \* the calls made on the loaded Cabinet so far, oldest first
    before,    \* the Cabinet as it was before the last of those calls
    filter,    \* the CookieSieve handed to filter (Cabinet) or asked about a text
    admitted,  \* outcome of CookieSieve::filter
    value,     \* the u64 handed to u64_htonl_to_bytes
    restored,  \* outcome of u64_ntohl_from_bytes
    metadata,  \* a CookieMetadata (input of the metadata codec)
    reloaded   \* outcome of the metadata Serializer::from_bytes

vars == <<pc, jar, platform, bytes, decoded, detected, host, text, delim, items, built, cabinet, chosen, ops,
          before, filter, admitted, value, restored, metadata, reloaded>>

-----------------------------------------------------------------------------
(* Bounds of the model. *)

MaxCookies == 2

-----------------------------------------------------------------------------
(* Generic helpers. *)

\* One element short of n copies.
Repeat_one_short(x, n) == [i \in 1..(n - 1) |-> x]

RECURSIVE Repeat(_, _)
Repeat(x, n) == IF n = 0 THEN <<>> ELSE <<x>> \o Repeat(x, n - 1)

Reverse(s) == [i \in 1..Len(s) |-> s[Len(s) + 1 - i]]

\* s[a..b] of Rust (0-based, b exclusive); callers check the range first.
Slice(s, a, b) == SubSeq(s, a + 1, b)

SeqsUpTo(S, n) == UNION {[1..k -> S] : k \in 0..n}

-----------------------------------------------------------------------------
(* u64 / u32 values as big-endian byte sequences. *)

U64(n) == <<0, 0, 0, 0, (n \div 16777216) % 256, (n \div 65536) % 256, (n \div 256) % 256, n % 256>>

U64_ZERO == U64(0)

U64_MAX == <<255, 255, 255, 255, 255, 255, 255, 255>>

\* x as u32: the low 32 bits.
as_u32(x) == SubSeq(x, 5, 8)

\* v as u64 for a u32 v: zero extension.
as_u64(v) == <<0, 0, 0, 0>> \o v

\* u32::to_be / u32::from_be on the little-endian host the tests pin: a byte swap.
swap_bytes(v) == Reverse(v)

\* u64::to_le_bytes and u64::from_le_bytes.
to_le_bytes(x) == Reverse(x)

from_le_bytes(b) == Reverse(b)

\* u32::to_be_bytes / u64::to_be_bytes and their inverses: the representation itself.
to_be_bytes(x) == x

from_be_bytes(b) == b

FitsU32(x) == SubSeq(x, 1, 4) = <<0, 0, 0, 0>>

u64_htonl_to_bytes_noswap(n) == to_le_bytes(as_u64(as_u32(n)))

u64_htonl_to_bytes(n) == to_le_bytes(as_u64(swap_bytes(as_u32(n))))

\* The decoding without the u32 byte swap.
u64_ntohl_from_bytes_noswap(b) == as_u64(as_u32(from_le_bytes(b)))

u64_ntohl_from_bytes(b) == as_u64(swap_bytes(as_u32(from_le_bytes(b))))

-----------------------------------------------------------------------------
(* Constants of cookie/serializer.rs and cookie.rs. *)

VERSION_HOMEBREW == 1

VERSION_LINUX == 2

VERSION_FREEBSD == 1

HEADER_SIZE_HOMEBREW == 48

HEADER_SIZE_LINUX == 24

HEADER_SIZE_FREEBSD == 24

DEFAULT_DELIMITER == 37

LF == 10

CR == 13

SerializerType == {"Homebrew", "Linux", "FreeBSD"}

\* char as u8 keeps the low 8 bits of the code point; u8 as char is the identity.
char_as_u8(c) == c % 256

Cookie(location, content, offset) == [location |-> location, content |-> content, offset |-> offset]

\* CookieJar::default()
CookieJar_default == [location |-> "", probability |-> <<"num", 0, 1>>, platform |-> "",
                      version |-> U64_ZERO, max_length |-> U64_ZERO, min_length |-> U64_MAX,
                      flags |-> U64_ZERO, delim |-> DEFAULT_DELIMITER, file_size |-> U64_ZERO,
                      cookies |-> <<>>]

-----------------------------------------------------------------------------
(* Serialize::to_bytes of the three layouts. *)

u32_be(x) == to_be_bytes(as_u32(x))

\* The encoding of one offset (and of file_size) in layout t.
EncodeOffset(t, x) ==
    CASE t = "Homebrew" -> u64_htonl_to_bytes(x)
      [] t = "Linux"    -> u32_be(x)
      [] t = "FreeBSD"  -> to_be_bytes(x)

\* An offset loop whose running offset skips the cookies that carry their own.
RECURSIVE OffsetTable_skipping(_, _, _, _)
OffsetTable_skipping(cookies, i, acc, t) ==
    IF i > Len(cookies) THEN <<>>
    ELSE IF cookies[i].offset # U64_ZERO
         THEN EncodeOffset(t, cookies[i].offset) \o OffsetTable_skipping(cookies, i + 1, acc, t)
         ELSE EncodeOffset(t, U64(acc))
              \o OffsetTable_skipping(cookies, i + 1, acc + Len(cookies[i].content) + 3, t)

\* The offset loop of the three to_bytes; `acc` is the running `offset` variable.
RECURSIVE OffsetTable(_, _, _, _)
OffsetTable(cookies, i, acc, t) ==
    IF i > Len(cookies) THEN <<>>
    ELSE (IF cookies[i].offset # U64_ZERO THEN EncodeOffset(t, cookies[i].offset)
          ELSE EncodeOffset(t, U64(acc)))
         \o OffsetTable(cookies, i + 1, acc + Len(cookies[i].content) + 3, t)

SerializerHomebrew_to_bytes(data) ==
    LET version == IF data.version # U64_ZERO THEN data.version ELSE U64(VERSION_HOMEBREW)
    IN  u64_htonl_to_bytes(version)
        \o u64_htonl_to_bytes(U64(Len(data.cookies)))
        \o u64_htonl_to_bytes(data.max_length)
        \o u64_htonl_to_bytes(data.min_length)
        \o u64_htonl_to_bytes(data.flags)
        \o <<char_as_u8(data.delim)>>
        \o Repeat(0, 7)
        \o OffsetTable(data.cookies, 1, 0, "Homebrew")
        \o u64_htonl_to_bytes(data.file_size)

SerializerLinux_to_bytes(data) ==
    LET version == IF data.version # U64_ZERO THEN data.version ELSE U64(VERSION_LINUX)
    IN  u32_be(version)
        \o u32_be(U64(Len(data.cookies)))
        \o u32_be(data.max_length)
        \o u32_be(data.min_length)
        \o u32_be(data.flags)
        \o <<char_as_u8(data.delim)>>
        \o Repeat(0, 3)
        \o OffsetTable(data.cookies, 1, 0, "Linux")
        \o u32_be(data.file_size)

SerializerFreeBSD_to_bytes(data) ==
    LET version == IF data.version # U64_ZERO THEN data.version ELSE U64(VERSION_FREEBSD)
    IN  u32_be(version)
        \o u32_be(U64(Len(data.cookies)))
        \o u32_be(data.max_length)
        \o u32_be(data.min_length)
        \o u32_be(data.flags)
        \o <<char_as_u8(data.delim)>>
        \o Repeat(0, 3)
        \o OffsetTable(data.cookies, 1, 0, "FreeBSD")
        \o to_be_bytes(data.file_size)

Serializer_to_bytes(data, t) ==
    CASE t = "Homebrew" -> SerializerHomebrew_to_bytes(data)
      [] t = "Linux"    -> SerializerLinux_to_bytes(data)
      [] t = "FreeBSD"  -> SerializerFreeBSD_to_bytes(data)

-----------------------------------------------------------------------------
(* Serialize::from_bytes of the three layouts.  The outcome is                *)
(* [status |-> "ok", jar |-> ...] or, when an index, a slice or the assert!   *)
(* panics, [status |-> "abort", jar |-> CookieJar_default].                   *)

Aborted == [status |-> "abort", jar |-> CookieJar_default]

Returned(j) == [status |-> "ok", jar |-> j]

\* (first..last).step_by(width): the cookies read from the offset table.
u32_from_be(b) == as_u64(from_be_bytes(b))

\* The decoding of one offset (and of file_size) in layout t.
DecodeOffset(t, b) ==
    CASE t = "Homebrew" -> u64_ntohl_from_bytes(b)
      [] t = "Linux"    -> u32_from_be(b)
      [] t = "FreeBSD"  -> from_be_bytes(b)

RECURSIVE ReadOffsets(_, _, _, _, _)
ReadOffsets(b, i, last, width, t) ==
    IF i >= last THEN <<>>
    ELSE <<Cookie("", <<>>, DecodeOffset(t, Slice(b, i, i + width)))>>
         \o ReadOffsets(b, i + width, last, width, t)

SerializerHomebrew_from_bytes(b) ==
    \* bytes[40] is the highest fixed index read; bytes.len() - 8 needs 8 bytes.
    IF Len(b) < 41 THEN Aborted
    ELSE Returned([location |-> "", probability |-> <<"num", 0, 1>>, platform |-> "homebrew",
                   version |-> u64_ntohl_from_bytes(Slice(b, 0, 8)),
                   max_length |-> u64_ntohl_from_bytes(Slice(b, 16, 24)),
                   min_length |-> u64_ntohl_from_bytes(Slice(b, 24, 32)),
                   flags |-> u64_ntohl_from_bytes(Slice(b, 32, 40)),
                   delim |-> b[41],
                   file_size |-> u64_ntohl_from_bytes(Slice(b, Len(b) - 8, Len(b))),
                   cookies |-> ReadOffsets(b, HEADER_SIZE_HOMEBREW, Len(b) - 8, 8, "Homebrew")])

\* The Linux decoder without its assert! on the count field.
SerializerLinux_from_bytes_unchecked(b) ==
    IF Len(b) < 21 THEN Aborted
    ELSE Returned([location |-> "", probability |-> <<"num", 0, 1>>, platform |-> "linux",
                   version |-> u32_from_be(Slice(b, 0, 4)),
                   max_length |-> u32_from_be(Slice(b, 8, 12)),
                   min_length |-> u32_from_be(Slice(b, 12, 16)),
                   flags |-> u32_from_be(Slice(b, 16, 20)),
                   delim |-> b[21],
                   file_size |-> u32_from_be(Slice(b, Len(b) - 4, Len(b))),
                   cookies |-> ReadOffsets(b, HEADER_SIZE_LINUX, Len(b) - 4, 4, "Linux")])

SerializerLinux_from_bytes(b) ==
    IF Len(b) < 21 THEN Aborted
    ELSE LET cookies == ReadOffsets(b, HEADER_SIZE_LINUX, Len(b) - 4, 4, "Linux")
             num_cookies == u32_from_be(Slice(b, 4, 8))
         IN  IF num_cookies # U64(Len(cookies)) THEN Aborted
             ELSE Returned([location |-> "", probability |-> <<"num", 0, 1>>, platform |-> "linux",
                            version |-> u32_from_be(Slice(b, 0, 4)),
                            max_length |-> u32_from_be(Slice(b, 8, 12)),
                            min_length |-> u32_from_be(Slice(b, 12, 16)),
                            flags |-> u32_from_be(Slice(b, 16, 20)),
                            delim |-> b[21],
                            file_size |-> u32_from_be(Slice(b, Len(b) - 4, Len(b))),
                            cookies |-> cookies])

SerializerFreeBSD_from_bytes(b) ==
    IF Len(b) < 21 THEN Aborted
    ELSE LET cookies == ReadOffsets(b, HEADER_SIZE_FREEBSD, Len(b) - 8, 8, "FreeBSD")
             num_cookies == u32_from_be(Slice(b, 4, 8))
         IN  IF num_cookies # U64(Len(cookies)) THEN Aborted
             ELSE Returned([location |-> "", probability |-> <<"num", 0, 1>>, platform |-> "freebsd",
                            version |-> u32_from_be(Slice(b, 0, 4)),
                            max_length |-> u32_from_be(Slice(b, 8, 12)),
                            min_length |-> u32_from_be(Slice(b, 12, 16)),
                            flags |-> u32_from_be(Slice(b, 16, 20)),
                            delim |-> b[21],
                            file_size |-> from_be_bytes(Slice(b, Len(b) - 8, Len(b))),
                            cookies |-> cookies])

Serializer_from_bytes(b, t) ==
    CASE t = "Homebrew" -> SerializerHomebrew_from_bytes(b)
      [] t = "Linux"    -> SerializerLinux_from_bytes(b)
      [] t = "FreeBSD"  -> SerializerFreeBSD_from_bytes(b)

-----------------------------------------------------------------------------
(* Serializer::get_type_by_bytes.  A slice bytes[a..b] with b > bytes.len()   *)
(* panics; `&&` evaluates its right operand only when the left one is true.   *)

Hosts == {"macos", "linux", "freebsd", "windows"}

Serializer_get_type_by_current_platform(os) ==
    CASE os = "macos"   -> "Homebrew"
      [] os = "linux"   -> "Linux"
      [] os = "freebsd" -> "FreeBSD"
      [] OTHER          -> "Linux"

WORD0 == <<0, 0, 0, 0>>

WORD1 == <<0, 0, 0, 1>>

WORD2 == <<0, 0, 0, 2>>

\* The second branch with all three slices taken before any is compared.
FreeBSDPattern_eager(b) ==
    IF Len(b) < 36 THEN "abort"
    ELSE IF Slice(b, 0, 4) = WORD1 /\ Slice(b, 24, 28) = WORD0 /\ Slice(b, 32, 36) = WORD0 THEN "yes"
    ELSE "no"

\* The second branch: "yes", "no" or "abort".
FreeBSDPattern(b) ==
    IF Slice(b, 0, 4) # WORD1 THEN "no"
    ELSE IF Len(b) < 28 THEN "abort"
    ELSE IF Slice(b, 24, 28) # WORD0 THEN "no"
    ELSE IF Len(b) < 36 THEN "abort"
    ELSE IF Slice(b, 32, 36) # WORD0 THEN "no"
    ELSE "yes"

\* The third branch: "yes", "no" or "abort".
LinuxPattern(b) ==
    IF Slice(b, 0, 4) # WORD2 THEN "no"
    ELSE IF Slice(b, 4, 8) = WORD0 THEN "no"
    ELSE IF Len(b) < 32 THEN "abort"
    ELSE IF Slice(b, 28, 32) = WORD0 THEN "no"
    ELSE IF Len(b) < 36 THEN "abort"
    ELSE IF Slice(b, 32, 36) = WORD0 THEN "no"
    ELSE "yes"

\* The same tests with the FreeBSD branch tried before the Homebrew one.
Serializer_get_type_by_bytes_freebsd_first(b, os) ==
    IF Len(b) < 8 THEN "abort"
    ELSE IF FreeBSDPattern(b) = "abort" THEN "abort"
    ELSE IF FreeBSDPattern(b) = "yes" THEN "FreeBSD"
    ELSE IF Slice(b, 0, 8) = WORD1 \o WORD0 THEN "Homebrew"
    ELSE IF LinuxPattern(b) = "abort" THEN "abort"
    ELSE IF LinuxPattern(b) = "yes" THEN "Linux"
    ELSE Serializer_get_type_by_current_platform(os)

Serializer_get_type_by_bytes(b, os) ==
    IF Len(b) < 8 THEN "abort"
    ELSE IF Slice(b, 0, 8) = WORD1 \o WORD0 THEN "Homebrew"
    ELSE IF FreeBSDPattern(b) = "abort" THEN "abort"
    ELSE IF FreeBSDPattern(b) = "yes" THEN "FreeBSD"
    ELSE IF LinuxPattern(b) = "abort" THEN "abort"
    ELSE IF LinuxPattern(b) = "yes" THEN "Linux"
    ELSE Serializer_get_type_by_current_platform(os)

-----------------------------------------------------------------------------
(* Values every specification gives the variables it does not use. *)

NoJar == CookieJar_default

NoBuilt == [status |-> "none", shelves |-> <<>>]

NoChosen == [status |-> "none", at |-> <<0, 0, 0>>]

-----------------------------------------------------------------------------
(* metadata.rs: the CookieMetadata index codec.  Its to_bytes writes seven   *)
(* padding bytes after the delimiter in all three layouts; its from_bytes     *)
(* starts the offset table at HEADER_SIZE_*.  The constants VERSION_* and     *)
(* HEADER_SIZE_* of metadata.rs have the values of cookie/serializer.rs.      *)

Quote(content, offset) == [content |-> content, offset |-> offset]

\* CookieMetadata::default()
CookieMetadata_default == [platform |-> "", version |-> U64_ZERO, num_quotes |-> U64_ZERO,
                           max_length |-> U64_ZERO, min_length |-> U64_MAX, flags |-> U64_ZERO,
                           delim |-> DEFAULT_DELIMITER, file_size |-> U64_ZERO, quotes |-> <<>>]

\* `for quote in &data.quotes`: every offset is written as it is stored.
RECURSIVE metadata_QuoteTable(_, _, _)
metadata_QuoteTable(quotes, i, t) ==
    IF i > Len(quotes) THEN <<>>
    ELSE (CASE t = "Homebrew" -> u64_htonl_to_bytes(quotes[i].offset)
            [] t = "Linux"    -> u32_be(quotes[i].offset)
            [] t = "FreeBSD"  -> to_be_bytes(quotes[i].offset))
         \o metadata_QuoteTable(quotes, i + 1, t)

metadata_SerializerHomebrew_to_bytes(data) ==
    LET version == IF data.version # U64_ZERO THEN data.version ELSE U64(VERSION_HOMEBREW)
    IN  u64_htonl_to_bytes(version)
        \o u64_htonl_to_bytes(data.num_quotes)
        \o u64_htonl_to_bytes(data.max_length)
        \o u64_htonl_to_bytes(data.min_length)
        \o u64_htonl_to_bytes(data.flags)
        \o <<char_as_u8(data.delim)>>
        \o Repeat(0, 7)
        \o metadata_QuoteTable(data.quotes, 1, "Homebrew")
        \o u64_htonl_to_bytes(data.file_size)

metadata_SerializerLinux_to_bytes(data) ==
    LET version == IF data.version # U64_ZERO THEN data.version ELSE U64(VERSION_LINUX)
    IN  u32_be(version)
        \o u32_be(data.num_quotes)
        \o u32_be(data.max_length)
        \o u32_be(data.min_length)
        \o u32_be(data.flags)
        \o <<char_as_u8(data.delim)>>
        \o Repeat(0, 7)
        \o metadata_QuoteTable(data.quotes, 1, "Linux")
        \o u32_be(data.file_size)

metadata_SerializerFreeBSD_to_bytes(data) ==
    LET version == IF data.version # U64_ZERO THEN data.version ELSE U64(VERSION_FREEBSD)
    IN  u32_be(version)
        \o u32_be(data.num_quotes)
        \o u32_be(data.max_length)
        \o u32_be(data.min_length)
        \o u32_be(data.flags)
        \o <<char_as_u8(data.delim)>>
        \o Repeat(0, 7)
        \o metadata_QuoteTable(data.quotes, 1, "FreeBSD")
        \o to_be_bytes(data.file_size)

metadata_Serializer_to_bytes(data, t) ==
    CASE t = "Homebrew" -> metadata_SerializerHomebrew_to_bytes(data)
      [] t = "Linux"    -> metadata_SerializerLinux_to_bytes(data)
      [] t = "FreeBSD"  -> metadata_SerializerFreeBSD_to_bytes(data)

\* The outcome of from_bytes: the CookieMetadata it returns, or a panic.
MetadataAborted == [status |-> "abort", data |-> CookieMetadata_default]

MetadataReturned(d) == [status |-> "ok", data |-> d]

NoMetadata == CookieMetadata_default

NoReloaded == [status |-> "none", data |-> CookieMetadata_default]

\* (first..last).step_by(width): the quotes read from the offset table.
RECURSIVE metadata_ReadQuotes(_, _, _, _, _)
metadata_ReadQuotes(b, i, last, width, t) ==
    IF i >= last THEN <<>>
    ELSE <<Quote("", CASE t = "Homebrew" -> u64_ntohl_from_bytes(Slice(b, i, i + width))
                       [] t = "Linux"    -> u32_from_be(Slice(b, i, i + width))
                       [] t = "FreeBSD"  -> from_be_bytes(Slice(b, i, i + width)))>>
         \o metadata_ReadQuotes(b, i + width, last, width, t)

metadata_SerializerHomebrew_from_bytes(b) ==
    IF Len(b) < 41 THEN MetadataAborted
    ELSE MetadataReturned([platform |-> "homebrew",
                           version |-> u64_ntohl_from_bytes(Slice(b, 0, 8)),
                           num_quotes |-> u64_ntohl_from_bytes(Slice(b, 8, 16)),
                           max_length |-> u64_ntohl_from_bytes(Slice(b, 16, 24)),
                           min_length |-> u64_ntohl_from_bytes(Slice(b, 24, 32)),
                           flags |-> u64_ntohl_from_bytes(Slice(b, 32, 40)),
                           delim |-> b[41],
                           file_size |-> u64_ntohl_from_bytes(Slice(b, Len(b) - 8, Len(b))),
                           quotes |-> metadata_ReadQuotes(b, HEADER_SIZE_HOMEBREW, Len(b) - 8, 8,
                                                          "Homebrew")])

\* Ends with assert!(data.num_quotes == data.quotes.len() as u64).
metadata_SerializerLinux_from_bytes(b) ==
    IF Len(b) < 21 THEN MetadataAborted
    ELSE LET quotes == metadata_ReadQuotes(b, HEADER_SIZE_LINUX, Len(b) - 4, 4, "Linux")
             num_quotes == u32_from_be(Slice(b, 4, 8))
         IN  IF num_quotes # U64(Len(quotes)) THEN MetadataAborted
             ELSE MetadataReturned([platform |-> "linux",
                                    version |-> u32_from_be(Slice(b, 0, 4)),
                                    num_quotes |-> num_quotes,
                                    max_length |-> u32_from_be(Slice(b, 8, 12)),
                                    min_length |-> u32_from_be(Slice(b, 12, 16)),
                                    flags |-> u32_from_be(Slice(b, 16, 20)),
                                    delim |-> b[21],
                                    file_size |-> u32_from_be(Slice(b, Len(b) - 4, Len(b))),
                                    quotes |-> quotes])

\* No assert! here: the quotes are returned as read.
metadata_SerializerFreeBSD_from_bytes(b) ==
    IF Len(b) < 21 THEN MetadataAborted
    ELSE MetadataReturned([platform |-> "freebsd",
                           version |-> u32_from_be(Slice(b, 0, 4)),
                           num_quotes |-> u32_from_be(Slice(b, 4, 8)),
                           max_length |-> u32_from_be(Slice(b, 8, 12)),
                           min_length |-> u32_from_be(Slice(b, 12, 16)),
                           flags |-> u32_from_be(Slice(b, 16, 20)),
                           delim |-> b[21],
                           file_size |-> from_be_bytes(Slice(b, Len(b) - 8, Len(b))),
                           quotes |-> metadata_ReadQuotes(b, HEADER_SIZE_FREEBSD, Len(b) - 8, 8,
                                                          "FreeBSD")])

metadata_Serializer_from_bytes(b, t) ==
    CASE t = "Homebrew" -> metadata_SerializerHomebrew_from_bytes(b)
      [] t = "Linux"    -> metadata_SerializerLinux_from_bytes(b)
      [] t = "FreeBSD"  -> metadata_SerializerFreeBSD_from_bytes(b)

-----------------------------------------------------------------------------
(* SpecCodec: a Jar is encoded by Serializer::to_bytes and the bytes are      *)
(* decoded by Serializer::from_bytes in the same layout.                      *)

BIG == <<0, 0, 0, 1, 0, 0, 0, 0>>    \* 2^32

BIG_PLUS_5 == <<0, 0, 0, 1, 0, 0, 0, 5>>

CodecContents == {<<>>, <<97, 98>>}

CodecOffsets == {U64_ZERO, U64(5), BIG_PLUS_5}

CodecCookies == {Cookie("", c, o) : c \in CodecContents, o \in CodecOffsets}

CodecJars ==
    {[location |-> "", probability |-> <<"num", 0, 1>>, platform |-> "",
      version |-> v, max_length |-> mx, min_length |-> mn, flags |-> f,
      delim |-> d, file_size |-> fs, cookies |-> cs] :
        v \in {U64_ZERO, U64(2)}, mx \in {U64(7), BIG}, mn \in {U64(6), U64_MAX},
        f \in {U64_ZERO, U64(2)}, d \in {37, 8240}, fs \in {U64(22), BIG_PLUS_5},
        cs \in SeqsUpTo(CodecCookies, MaxCookies)}

InitCodec ==
    /\ pc = "jar"
    /\ jar \in CodecJars
    /\ platform \in SerializerType
    /\ bytes = <<>>
    /\ decoded = Aborted
    /\ detected = "none"
    /\ host = "linux"
    /\ text = <<>>
    /\ delim = DEFAULT_DELIMITER
    /\ items = <<>>
    /\ built = NoBuilt
    /\ cabinet = <<>>
    /\ chosen = NoChosen
    /\ ops = <<>>
    /\ before = <<>>
    /\ filter = <<>>
    /\ admitted = FALSE
    /\ value = U64_ZERO
    /\ restored = U64_ZERO
    /\ metadata = NoMetadata
    /\ reloaded = NoReloaded

Encode ==
    /\ pc = "jar"
    /\ bytes' = Serializer_to_bytes(jar, platform)
    /\ pc' = "encoded"
    /\ UNCHANGED <<jar, platform, decoded, detected, host, text, delim, items, built, cabinet, chosen, ops, before, filter, admitted, value, restored, metadata, reloaded>>

Decode ==
    /\ pc = "encoded"
    /\ decoded' = Serializer_from_bytes(bytes, platform)
    /\ pc' = "decoded"
    /\ UNCHANGED <<jar, platform, bytes, detected, host, text, delim, items, built, cabinet, chosen, ops, before, filter, admitted, value, restored, metadata, reloaded>>

NextCodec == Encode \/ Decode

SpecCodec == InitCodec /\ [][NextCodec]_vars

-----------------------------------------------------------------------------
(* SpecDat: a Jar is written by Serializer::to_bytes in one layout and the    *)
(* bytes are handed to Serializer::get_type_by_bytes, as CookieJar::from_dat  *)
(* does with the bytes of a .dat file, on any host.                           *)

Sniff ==
    /\ pc = "encoded"
    /\ \E os \in Hosts :
          /\ host' = os
          /\ detected' = Serializer_get_type_by_bytes(bytes, os)
    /\ pc' = "sniffed"
    /\ UNCHANGED <<jar, platform, bytes, decoded, text, delim, items, built, cabinet, chosen, ops, before, filter, admitted, value, restored, metadata, reloaded>>

NextDat == Encode \/ Sniff

SpecDat == InitCodec /\ [][NextDat]_vars

-----------------------------------------------------------------------------
(* SpecHtonl: u64_htonl_to_bytes on a 64-bit value, then u64_ntohl_from_bytes *)
(* on the bytes it produced.  The values are all 8-byte words over WordBytes. *)

WordBytes == {0, 1, 144, 255}

Words == [1..8 -> WordBytes]

InitHtonl ==
    /\ pc = "value"
    /\ value \in Words
    /\ restored = U64_ZERO
    /\ metadata = NoMetadata
    /\ reloaded = NoReloaded
    /\ bytes = <<>>
    /\ jar = NoJar
    /\ platform = "Homebrew"
    /\ decoded = Aborted
    /\ detected = "none"
    /\ host = "linux"
    /\ text = <<>>
    /\ delim = DEFAULT_DELIMITER
    /\ items = <<>>
    /\ built = NoBuilt
    /\ cabinet = <<>>
    /\ chosen = NoChosen
    /\ ops = <<>>
    /\ before = <<>>
    /\ filter = <<>>
    /\ admitted = FALSE

HtonlToBytes ==
    /\ pc = "value"
    /\ bytes' = u64_htonl_to_bytes(value)
    /\ pc' = "net"
    /\ UNCHANGED <<jar, platform, decoded, detected, host, text, delim, items, built, cabinet, chosen, ops, before, filter, admitted, value, restored, metadata, reloaded>>

NtohlFromBytes ==
    /\ pc = "net"
    /\ restored' = u64_ntohl_from_bytes(bytes)
    /\ pc' = "host"
    /\ UNCHANGED <<jar, platform, bytes, decoded, detected, host, text, delim, items, built, cabinet, chosen, ops, before, filter, admitted, value, metadata, reloaded>>

NextHtonl == HtonlToBytes \/ NtohlFromBytes

SpecHtonl == InitHtonl /\ [][NextHtonl]_vars

-----------------------------------------------------------------------------
(* SpecDecode: Serializer::from_bytes on an arbitrary buffer: every prefix of *)
(* an index of up to MaxEntries offsets, in any layout, whose count field     *)
(* holds any value up to MaxEntries, decoded in any layout.                   *)

MaxEntries == 2

DecodeJar(n) ==
    [CookieJar_default EXCEPT !.version = U64(1), !.max_length = U64(7), !.min_length = U64(6),
                              !.cookies = [i \in 1..n |-> Cookie("", <<97, 98>>, U64_ZERO)],
                              !.file_size = U64(5 * n)]

\* The bytes of the count field in layout t.
CountField(t, c) == IF t = "Homebrew" THEN u64_htonl_to_bytes(U64(c)) ELSE u32_be(U64(c))

\* b with its count field overwritten by c.
WithCount(b, t, c) ==
    LET at == IF t = "Homebrew" THEN 8 ELSE 4
        field == CountField(t, c)
    IN  [i \in 1..Len(b) |-> IF i > at /\ i <= at + Len(field) THEN field[i - at] ELSE b[i]]

DecodeBuffers ==
    UNION {{SubSeq(WithCount(Serializer_to_bytes(DecodeJar(n), t), t, c), 1, k) :
               k \in 0..Len(Serializer_to_bytes(DecodeJar(n), t))} :
           t \in SerializerType, n \in 0..MaxEntries, c \in 0..MaxEntries}

InitDecode ==
    /\ pc = "buffer"
    /\ bytes \in DecodeBuffers
    /\ platform \in SerializerType
    /\ jar = NoJar
    /\ decoded = Aborted
    /\ detected = "none"
    /\ host = "linux"
    /\ text = <<>>
    /\ delim = DEFAULT_DELIMITER
    /\ items = <<>>
    /\ built = NoBuilt
    /\ cabinet = <<>>
    /\ chosen = NoChosen
    /\ ops = <<>>
    /\ before = <<>>
    /\ filter = <<>>
    /\ admitted = FALSE
    /\ value = U64_ZERO
    /\ restored = U64_ZERO
    /\ metadata = NoMetadata
    /\ reloaded = NoReloaded

FromBytes ==
    /\ pc = "buffer"
    /\ decoded' = Serializer_from_bytes(bytes, platform)
    /\ pc' = "decoded"
    /\ UNCHANGED <<jar, platform, bytes, detected, host, text, delim, items, built, cabinet, chosen, ops, before, filter, admitted, value, restored, metadata, reloaded>>

NextDecode == FromBytes

SpecDecode == InitDecode /\ [][NextDecode]_vars

-----------------------------------------------------------------------------
(* SpecDetect: Serializer::get_type_by_bytes on an arbitrary buffer.          *)

MaxBufWords == 9

RECURSIVE Flatten(_)
Flatten(ws) == IF ws = <<>> THEN <<>> ELSE Head(ws) \o Flatten(Tail(ws))

\* Buffers of whole 32-bit words: any of 0, 1, 2 in the version word, zero or
\* nonzero in the others.
Buffers ==
    {<<>>} \cup
    {Flatten(<<v>> \o ws) : v \in {WORD0, WORD1, WORD2},
                            ws \in SeqsUpTo({WORD0, WORD1}, MaxBufWords - 1)}

InitDetect ==
    /\ pc = "buffer"
    /\ bytes \in Buffers
    /\ jar = NoJar
    /\ platform = "Linux"
    /\ decoded = Aborted
    /\ detected = "none"
    /\ host = "linux"
    /\ text = <<>>
    /\ delim = DEFAULT_DELIMITER
    /\ items = <<>>
    /\ built = NoBuilt
    /\ cabinet = <<>>
    /\ chosen = NoChosen
    /\ ops = <<>>
    /\ before = <<>>
    /\ filter = <<>>
    /\ admitted = FALSE
    /\ value = U64_ZERO
    /\ restored = U64_ZERO
    /\ metadata = NoMetadata
    /\ reloaded = NoReloaded

Detect ==
    /\ pc = "buffer"
    /\ \E os \in Hosts :
          /\ host' = os
          /\ detected' = Serializer_get_type_by_bytes(bytes, os)
    /\ pc' = "detected"
    /\ UNCHANGED <<jar, platform, bytes, decoded, text, delim, items, built, cabinet, chosen, ops, before, filter, admitted, value, restored, metadata, reloaded>>

NextDetect == Detect

SpecDetect == InitDetect /\ [][NextDetect]_vars

-----------------------------------------------------------------------------
(* CookieJar::from_text.                                                      *)

\* str::replace: every non-overlapping occurrence of pat, leftmost first.
RECURSIVE Replace(_, _, _)
Replace(s, pat, rep) ==
    IF Len(s) < Len(pat) THEN s
    ELSE IF SubSeq(s, 1, Len(pat)) = pat
         THEN rep \o Replace(SubSeq(s, Len(pat) + 1, Len(s)), pat, rep)
         ELSE <<Head(s)>> \o Replace(Tail(s), pat, rep)

\* The same two replacements in the other order.
Normalize_cr_first(content) == Replace(Replace(content, <<CR>>, <<LF>>), <<CR, LF>>, <<LF>>)

\* content.replace("\r\n", "\n").replace("\r", "\n")
Normalize(content) == Replace(Replace(content, <<CR, LF>>, <<LF>>), <<CR>>, <<LF>>)

\* str::split(pat): `cur` is the part being collected.
RECURSIVE SplitFrom(_, _, _)
SplitFrom(s, pat, cur) ==
    IF Len(s) < Len(pat) THEN <<cur \o s>>
    ELSE IF SubSeq(s, 1, Len(pat)) = pat
         THEN <<cur>> \o SplitFrom(SubSeq(s, Len(pat) + 1, Len(s)), pat, <<>>)
         ELSE SplitFrom(Tail(s), pat, cur \o <<Head(s)>>)

Split(s, pat) == SplitFrom(s, pat, <<>>)

trim_end_matches_never(s, pat) == s

\* str::trim_end_matches(pat): removes every repetition of pat at the end.
RECURSIVE trim_end_matches(_, _)
trim_end_matches(s, pat) ==
    IF Len(s) >= Len(pat) /\ SubSeq(s, Len(s) - Len(pat) + 1, Len(s)) = pat
    THEN trim_end_matches(SubSeq(s, 1, Len(s) - Len(pat)), pat)
    ELSE s

\* char::is_whitespace on single-byte characters.
IsWhitespace(c) == c \in {9, 10, 11, 12, 13, 32}

\* part.trim().is_empty()
IsBlank(s) == \A i \in 1..Len(s) : IsWhitespace(s[i])

Max(S) == CHOOSE x \in S : \A y \in S : y <= x

Min(S) == CHOOSE x \in S : \A y \in S : x <= y

Serializer_get_current_platform(os) ==
    CASE os = "macos"   -> "homebrew"
      [] os = "linux"   -> "linux"
      [] os = "freebsd" -> "freebsd"
      [] OTHER          -> "linux"

\* Model locations never end in ".dat", so location.trim_end_matches(".dat")
\* leaves them as they are.
CookieJar_from_text(content, location, d) ==
    LET normalized == Normalize(content)
        raw == Split(normalized, <<LF, d, LF>>)
        parts == [i \in 1..Len(raw) |-> trim_end_matches(raw[i], <<LF, d>>)]
        kept == SelectSeq(parts, LAMBDA part : ~IsBlank(part))
        lengths == {Len(kept[i]) + 1 : i \in 1..Len(kept)}
    IN  [CookieJar_default EXCEPT
            !.platform = Serializer_get_current_platform(host),
            !.location = location,
            !.delim = d,
            !.cookies = [i \in 1..Len(kept) |-> Cookie(location, kept[i], U64_ZERO)],
            !.max_length = IF lengths = {} THEN U64(0) ELSE U64(Max(lengths)),
            !.min_length = IF lengths = {} THEN U64(0) ELSE U64(Min(lengths)),
            !.file_size = U64(Len(normalized))]

-----------------------------------------------------------------------------
(* SpecText: CookieJar::from_text on a bounded text.                          *)

MaxTextLen == 5

TextAlphabet == {97, 32, LF, CR, 37}

\* "apple\n%\nbanana\n%"
AppleBanana == <<97, 112, 112, 108, 101, 10, 37, 10, 98, 97, 110, 97, 110, 97, 10, 37>>

\* "apple\n#\nbanana\n#\n\n#\ncherry" of test_cookie_jar_from_text, with % for #.
AppleBananaCherry ==
    <<97, 112, 112, 108, 101, 10, 37, 10, 98, 97, 110, 97, 110, 97, 10, 37, 10, 10, 37, 10,
      99, 104, 101, 114, 114, 121>>

\* "a\r\n%\n \r%"
MixedLineEndings == <<97, CR, LF, 37, LF, 32, CR, 37>>

Texts == SeqsUpTo(TextAlphabet, MaxTextLen) \cup {AppleBanana, AppleBananaCherry, MixedLineEndings}

TextDelims == {37, LF}

InitText ==
    /\ pc = "text"
    /\ text \in Texts
    /\ delim \in TextDelims
    /\ host \in {"linux", "macos"}
    /\ jar = NoJar
    /\ platform = "Linux"
    /\ bytes = <<>>
    /\ decoded = Aborted
    /\ detected = "none"
    /\ items = <<>>
    /\ built = NoBuilt
    /\ cabinet = <<>>
    /\ chosen = NoChosen
    /\ ops = <<>>
    /\ before = <<>>
    /\ filter = <<>>
    /\ admitted = FALSE
    /\ value = U64_ZERO
    /\ restored = U64_ZERO
    /\ metadata = NoMetadata
    /\ reloaded = NoReloaded

FromText ==
    /\ pc = "text"
    /\ jar' = CookieJar_from_text(text, "f", delim)
    /\ pc' = "parsed"
    /\ UNCHANGED <<platform, bytes, decoded, detected, host, text, delim, items, built, cabinet, chosen, ops, before, filter, admitted, value, restored, metadata, reloaded>>

NextText == FromText

SpecText == InitText /\ [][NextText]_vars

-----------------------------------------------------------------------------
(* SpecIndex: what strfile does: a text is parsed by CookieJar::from_text and *)
(* the Jar is written by Serializer::to_bytes in some layout.                 *)

InitIndex ==
    /\ pc = "text"
    /\ text \in Texts
    /\ delim \in TextDelims
    /\ platform \in SerializerType
    /\ host = "linux"
    /\ jar = NoJar
    /\ bytes = <<>>
    /\ decoded = Aborted
    /\ detected = "none"
    /\ items = <<>>
    /\ built = NoBuilt
    /\ cabinet = <<>>
    /\ chosen = NoChosen
    /\ ops = <<>>
    /\ before = <<>>
    /\ filter = <<>>
    /\ admitted = FALSE
    /\ value = U64_ZERO
    /\ restored = U64_ZERO
    /\ metadata = NoMetadata
    /\ reloaded = NoReloaded

WriteIndex ==
    /\ pc = "parsed"
    /\ bytes' = Serializer_to_bytes(jar, platform)
    /\ pc' = "written"
    /\ UNCHANGED <<jar, platform, decoded, detected, host, text, delim, items, built, cabinet, chosen, ops, before, filter, admitted, value, restored, metadata, reloaded>>

NextIndex == FromText \/ WriteIndex

SpecIndex == InitIndex /\ [][NextIndex]_vars

-----------------------------------------------------------------------------
(* SpecMetadata: a CookieMetadata whose num_quotes is the length of quotes is *)
(* written by the metadata.rs Serializer::to_bytes and read back by its       *)
(* Serializer::from_bytes in the same layout.                                 *)

MaxQuotes == 2

MetadataOffsets == {U64_ZERO, U64(5), U64(9)}

Metadatas ==
    {[platform |-> "", version |-> v, num_quotes |-> U64(Len(qs)), max_length |-> U64(7),
      min_length |-> U64(6), flags |-> f, delim |-> DEFAULT_DELIMITER, file_size |-> U64(22),
      quotes |-> [i \in 1..Len(qs) |-> Quote("", qs[i])]] :
        v \in {U64_ZERO, U64(2)}, f \in {U64_ZERO, U64(2)},
        qs \in SeqsUpTo(MetadataOffsets, MaxQuotes)}

InitMetadata ==
    /\ pc = "metadata"
    /\ metadata \in Metadatas
    /\ platform \in SerializerType
    /\ reloaded = NoReloaded
    /\ jar = NoJar
    /\ bytes = <<>>
    /\ decoded = Aborted
    /\ detected = "none"
    /\ host = "linux"
    /\ text = <<>>
    /\ delim = DEFAULT_DELIMITER
    /\ items = <<>>
    /\ built = NoBuilt
    /\ cabinet = <<>>
    /\ chosen = NoChosen
    /\ ops = <<>>
    /\ before = <<>>
    /\ filter = <<>>
    /\ admitted = FALSE
    /\ value = U64_ZERO
    /\ restored = U64_ZERO

MetadataToBytes ==
    /\ pc = "metadata"
    /\ bytes' = metadata_Serializer_to_bytes(metadata, platform)
    /\ pc' = "indexed"
    /\ UNCHANGED <<jar, platform, decoded, detected, host, text, delim, items, built, cabinet, chosen, ops, before, filter, admitted, value, restored, metadata, reloaded>>

MetadataFromBytes ==
    /\ pc = "indexed"
    /\ reloaded' = metadata_Serializer_from_bytes(bytes, platform)
    /\ pc' = "reloaded"
    /\ UNCHANGED <<jar, platform, bytes, decoded, detected, host, text, delim, items, built, cabinet, chosen, ops, before, filter, admitted, value, metadata, restored>>

NextMetadata == MetadataToBytes \/ MetadataFromBytes

SpecMetadata == InitMetadata /\ [][NextMetadata]_vars

-----------------------------------------------------------------------------
(* f64 values: <<"num", n, d>> is the rational n/d in lowest terms (d > 0),   *)
(* NAN and INF the two special values the operations below can produce.       *)

RECURSIVE GCD(_, _)
GCD(a, b) == IF b = 0 THEN a ELSE GCD(b, a % b)

Abs(n) == IF n < 0 THEN -n ELSE n

Rat(n, d) ==
    LET g == GCD(Abs(n), Abs(d))
        sg == IF d < 0 THEN -1 ELSE 1
    IN  <<"num", sg * (n \div g), sg * (d \div g)>>

F(n) == <<"num", n, 1>>

NAN == <<"nan", 0, 1>>

INF == <<"inf", 1, 1>>

is_nan(a) == a[1] = "nan"

is_inf(a) == a[1] = "inf"

\* a + b
fadd(a, b) ==
    IF is_nan(a) \/ is_nan(b) THEN NAN
    ELSE IF is_inf(a) \/ is_inf(b) THEN INF
    ELSE Rat(a[2] * b[3] + b[2] * a[3], a[3] * b[3])

\* a - b for a finite b
fsub(a, b) ==
    IF is_nan(a) \/ is_nan(b) THEN NAN
    ELSE IF is_inf(a) THEN INF
    ELSE Rat(a[2] * b[3] - b[2] * a[3], a[3] * b[3])

\* a * b for non-negative operands
fmul(a, b) ==
    IF is_nan(a) \/ is_nan(b) THEN NAN
    ELSE IF is_inf(a) \/ is_inf(b)
         THEN (IF a = F(0) \/ b = F(0) THEN NAN ELSE INF)
    ELSE Rat(a[2] * b[2], a[3] * b[3])

\* a / b for non-negative operands: x/0 is +infinity, 0/0 is NaN
fdiv(a, b) ==
    IF is_nan(a) \/ is_nan(b) THEN NAN
    ELSE IF is_inf(a) THEN (IF is_inf(b) THEN NAN ELSE INF)
    ELSE IF is_inf(b) THEN F(0)
    ELSE IF b = F(0) THEN (IF a = F(0) THEN NAN ELSE INF)
    ELSE Rat(a[2] * b[3], a[3] * b[2])

fabs(a) == IF a[1] = "num" THEN <<"num", Abs(a[2]), a[3]>> ELSE a

\* a > b; false when either is NaN
fgt(a, b) ==
    IF is_nan(a) \/ is_nan(b) THEN FALSE
    ELSE IF is_inf(a) THEN ~is_inf(b)
    ELSE IF is_inf(b) THEN FALSE
    ELSE a[2] * b[3] > b[2] * a[3]

\* a >= b; false when either is NaN
fge(a, b) == ~is_nan(a) /\ ~is_nan(b) /\ ~fgt(b, a)

\* iter().sum::<f64>()
RECURSIVE fsum(_)
fsum(ps) == IF ps = <<>> THEN F(0) ELSE fadd(ps[Len(ps)], fsum(SubSeq(ps, 1, Len(ps) - 1)))

\* 0.0001
TOLERANCE == Rat(1, 10000)

-----------------------------------------------------------------------------
(* CookieShelf, CookieCabinet and CookieCabinet::from_string_list.            *)

\* CookieShelf::new
CookieShelf_new(location, probability) ==
    [location |-> location, probability |-> probability, jars |-> <<>>]

ShelfProbabilities(shelves) == [i \in 1..Len(shelves) |-> shelves[i].probability]

\* An item of the argument list: whether it ends with '%', what
\* strip_suffix("%").parse::<f64>() gives for it (PARSE_ERR for Err), and the
\* item itself when it is a location.
PARSE_ERR == <<"err", 0, 1>>

Pct(n) == [ends_pct |-> TRUE, parsed |-> F(n), name |-> "%"]

BadPct == [ends_pct |-> TRUE, parsed |-> PARSE_ERR, name |-> "%"]

Loc(name) == [ends_pct |-> FALSE, parsed |-> PARSE_ERR, name |-> name]

EMBED_LOCATION == "embed://en"

\* if (total_prob - 100.0).abs() > 0.0001 && total_prob > 0.0
PartialWeights_only_above(total_prob) == fgt(total_prob, F(100))

PartialWeights(total_prob) ==
    fgt(fabs(fsub(total_prob, F(100))), TOLERANCE) /\ fgt(total_prob, F(0))

\* The loop over items: `prob` is the pending probability, `shelves` the shelves
\* pushed so far.  The outcome is the shelves, or "abort" when parse().unwrap()
\* panics.
RECURSIVE FromStringListLoop(_, _, _, _)
FromStringListLoop(its, i, prob, shelves) ==
    IF i > Len(its) THEN [status |-> "ok", shelves |-> shelves]
    ELSE IF its[i].ends_pct
         THEN (IF its[i].parsed = PARSE_ERR THEN [status |-> "abort", shelves |-> <<>>]
               ELSE FromStringListLoop(its, i + 1, its[i].parsed, shelves))
         ELSE (IF fgt(prob, F(0))
               THEN FromStringListLoop(its, i + 1, F(0),
                                       Append(shelves, CookieShelf_new(its[i].name, prob)))
               ELSE FromStringListLoop(its, i + 1, prob,
                                       Append(shelves, CookieShelf_new(its[i].name, F(0)))))

\* [status |-> "ok", shelves |-> the Cabinet's shelves], "err" for the Err result,
\* "abort" for a panic.
CookieCabinet_from_string_list(its) ==
    LET looped == IF its = <<>>
                  THEN [status |-> "ok", shelves |-> <<CookieShelf_new(EMBED_LOCATION, F(100))>>]
                  ELSE FromStringListLoop(its, 1, F(0), <<>>)
    IN  IF looped.status = "abort" THEN looped
        ELSE IF PartialWeights(fsum(ShelfProbabilities(looped.shelves)))
             THEN [status |-> "err", shelves |-> <<>>]
             ELSE looped

-----------------------------------------------------------------------------
(* SpecParse: CookieCabinet::from_string_list on a bounded argument list.     *)

MaxItems == 6

ParseTokens == {Pct(15), Pct(85), Pct(10), Pct(0), BadPct, Loc("x")}

InitParse ==
    /\ pc = "items"
    /\ items \in SeqsUpTo(ParseTokens, MaxItems)
    /\ jar = NoJar
    /\ platform = "Linux"
    /\ bytes = <<>>
    /\ decoded = Aborted
    /\ detected = "none"
    /\ host = "linux"
    /\ text = <<>>
    /\ delim = DEFAULT_DELIMITER
    /\ built = NoBuilt
    /\ cabinet = <<>>
    /\ chosen = NoChosen
    /\ ops = <<>>
    /\ before = <<>>
    /\ filter = <<>>
    /\ admitted = FALSE
    /\ value = U64_ZERO
    /\ restored = U64_ZERO
    /\ metadata = NoMetadata
    /\ reloaded = NoReloaded

FromStringList ==
    /\ pc = "items"
    /\ built' = CookieCabinet_from_string_list(items)
    /\ cabinet' = built'.shelves
    /\ pc' = IF built'.status = "ok" THEN "built" ELSE "failed"
    /\ UNCHANGED <<jar, platform, bytes, decoded, detected, host, text, delim, items, chosen, ops, before, filter, admitted, value, restored, metadata, reloaded>>

NextParse == FromStringList

SpecParse == InitParse /\ [][NextParse]_vars

-----------------------------------------------------------------------------
(* CookieSieve: an ordered list of predicates on the cookie text.  The model  *)
(* has two length predicates shaped like the tests' |q| q.len() + 1 > 70 and  *)
(* |q| q.len() + 1 < 17, with thresholds scaled to the model's cookies:       *)
(* "long" admits q.len() > 1 and "short" admits q.len() < 2; "contains_a" is  *)
(* the tests' |q| q.contains("a").                                            *)

Predicate(f, cookie) ==
    CASE f = "long"  -> Len(cookie) > 1
      [] f = "short" -> Len(cookie) < 2
      [] f = "contains_a" -> \E i \in 1..Len(cookie) : cookie[i] = 97

\* A Sieve that admits a text as soon as one predicate does.
CookieSieve_filter_any(sieve, cookie) == \E i \in 1..Len(sieve) : Predicate(sieve[i], cookie)

\* self.filters.iter().all(|f| f(cookie))
CookieSieve_filter(sieve, cookie) == \A i \in 1..Len(sieve) : Predicate(sieve[i], cookie)

Sieves == {<<>>, <<"long">>, <<"short">>, <<"long", "short">>}

-----------------------------------------------------------------------------
(* SpecSieve: predicates are added to a Sieve in some order (add_filter) and  *)
(* the Sieve is asked about a text (CookieSieve::filter).                     *)

MaxPredicates == 3

Predicates == {"long", "short", "contains_a"}

SieveTexts == {<<>>, <<97>>, <<98>>, <<97, 98>>, <<98, 98>>, <<98, 98, 97>>}

InitSieve ==
    /\ pc = "sieve"
    /\ filter \in SeqsUpTo(Predicates, MaxPredicates)
    /\ text \in SieveTexts
    /\ admitted = FALSE
    /\ jar = NoJar
    /\ platform = "Linux"
    /\ bytes = <<>>
    /\ decoded = Aborted
    /\ detected = "none"
    /\ host = "linux"
    /\ delim = DEFAULT_DELIMITER
    /\ items = <<>>
    /\ built = NoBuilt
    /\ cabinet = <<>>
    /\ chosen = NoChosen
    /\ ops = <<>>
    /\ before = <<>>
    /\ value = U64_ZERO
    /\ restored = U64_ZERO
    /\ metadata = NoMetadata
    /\ reloaded = NoReloaded

SieveFilter ==
    /\ pc = "sieve"
    /\ admitted' = CookieSieve_filter(filter, text)
    /\ pc' = "asked"
    /\ UNCHANGED <<jar, platform, bytes, decoded, detected, host, text, delim, items, built, cabinet, chosen, ops, before, filter, value, restored, metadata, reloaded>>

NextSieve == SieveFilter

SpecSieve == InitSieve /\ [][NextSieve]_vars

-----------------------------------------------------------------------------
(* The files the Loader finds under each location: name and content.          *)

\* "a\n%\nbb\n%", "a\n%", "bb\n%" and the empty file.
FILE_A_BB == <<97, 10, 37, 10, 98, 98, 10, 37>>

FILE_A == <<97, 10, 37>>

FILE_BB == <<98, 98, 10, 37>>

FILE_EMPTY == <<>>

Locations == {"x", "y", "z"}

FilesUnder(location) ==
    CASE location = "x" -> <<[name |-> "apple", content |-> FILE_A_BB], [name |-> "one", content |-> FILE_A]>>
      [] location = "y" -> <<[name |-> "cat", content |-> FILE_BB], [name |-> "zero", content |-> FILE_EMPTY]>>
      [] location = "z" -> <<[name |-> "zero", content |-> FILE_EMPTY]>>
      [] OTHER          -> <<[name |-> "apple", content |-> FILE_A_BB]>>

-----------------------------------------------------------------------------
(* CookieJar, CookieShelf and CookieCabinet operations.                       *)

\* A filter that measures the Jar again: max_length and min_length are taken
\* from the cookies that remain.
CookieJar_filter_remeasured(j, sieve) ==
    LET kept == SelectSeq(j.cookies, LAMBDA c : CookieSieve_filter(sieve, c.content))
        lens == {Len(kept[i].content) : i \in 1..Len(kept)}
    IN  IF kept = <<>> THEN [j EXCEPT !.cookies = kept]
        ELSE [j EXCEPT !.cookies = kept,
                       !.max_length = U64(CHOOSE n \in lens : \A m \in lens : m <= n),
                       !.min_length = U64(CHOOSE n \in lens : \A m \in lens : n <= m)]

\* self.cookies.retain(|c| filter.filter(&c.content))
CookieJar_filter(j, sieve) ==
    [j EXCEPT !.cookies = SelectSeq(j.cookies, LAMBDA c : CookieSieve_filter(sieve, c.content))]

CookieJar_num_of_cookies(j) == Len(j.cookies)

RECURSIVE SumNat(_)
SumNat(ns) == IF ns = <<>> THEN 0 ELSE Head(ns) + SumNat(Tail(ns))

CookieShelf_num_of_cookies(shelf) == SumNat([i \in 1..Len(shelf.jars) |-> Len(shelf.jars[i].cookies)])

CookieShelf_num_of_jars(shelf) == Len(shelf.jars)

JarProbabilities(shelf) == [i \in 1..Len(shelf.jars) |-> shelf.jars[i].probability]

\* The proportional branch with the Cabinet-wide share 100 * len / total used
\* in place of the Shelf's own probability.
CookieShelf_calculate_prob_unscaled(shelf, equal_size) ==
    IF shelf.probability = F(0) THEN shelf
    ELSE IF equal_size
    THEN [shelf EXCEPT !.jars = [i \in 1..Len(shelf.jars) |->
              [shelf.jars[i] EXCEPT !.probability = F(100)]]]
    ELSE [shelf EXCEPT !.jars = [i \in 1..Len(shelf.jars) |->
              [shelf.jars[i] EXCEPT !.probability =
                  fmul(fdiv(F(Len(shelf.jars[i].cookies)), F(CookieShelf_num_of_cookies(shelf))),
                       F(100))]]]

\* The equal_size branch sharing the Shelf's probability among the Jars that
\* hold a cookie and leaving the empty Jars at 0.
CookieShelf_calculate_prob_nonempty(shelf, equal_size) ==
    IF shelf.probability = F(0) THEN shelf
    ELSE LET full == Cardinality({i \in 1..Len(shelf.jars) : Len(shelf.jars[i].cookies) > 0})
         IN  [shelf EXCEPT !.jars = [i \in 1..Len(shelf.jars) |->
                 [shelf.jars[i] EXCEPT !.probability =
                     IF equal_size
                     THEN (IF Len(shelf.jars[i].cookies) > 0 THEN fdiv(shelf.probability, F(full)) ELSE F(0))
                     ELSE fmul(fdiv(F(Len(shelf.jars[i].cookies)), F(CookieShelf_num_of_cookies(shelf))),
                               shelf.probability)]]]

CookieShelf_calculate_prob(shelf, equal_size) ==
    IF shelf.probability = F(0) THEN shelf
    ELSE IF equal_size
    THEN LET prob == fdiv(shelf.probability, F(CookieShelf_num_of_jars(shelf)))
         IN  [shelf EXCEPT !.jars = [i \in 1..Len(shelf.jars) |->
                 [shelf.jars[i] EXCEPT !.probability = prob]]]
    ELSE LET total_num_cookies == CookieShelf_num_of_cookies(shelf)
         IN  [shelf EXCEPT !.jars = [i \in 1..Len(shelf.jars) |->
                 [shelf.jars[i] EXCEPT !.probability =
                     fmul(fdiv(F(Len(shelf.jars[i].cookies)), F(total_num_cookies)),
                          shelf.probability)]]]

\* CookieShelf::load: one Jar per file found, parsed with the default delimiter
\* and located by the file's path relative to the Shelf (update_location).
CookieShelf_load(shelf) ==
    LET files == FilesUnder(shelf.location)
    IN  [shelf EXCEPT !.jars = [i \in 1..Len(files) |->
            CookieJar_from_text(files[i].content, files[i].name, DEFAULT_DELIMITER)]]

\* A Shelf filter that keeps the Jars it emptied.
CookieShelf_filter_keeping_empty(shelf, sieve) ==
    [shelf EXCEPT !.jars = [i \in 1..Len(shelf.jars) |-> CookieJar_filter(shelf.jars[i], sieve)]]

CookieShelf_filter(shelf, sieve) ==
    LET filtered == [i \in 1..Len(shelf.jars) |-> CookieJar_filter(shelf.jars[i], sieve)]
    IN  [shelf EXCEPT !.jars = SelectSeq(filtered, LAMBDA j : CookieJar_num_of_cookies(j) > 0)]

CookieCabinet_num_of_cookies(shelves) ==
    SumNat([i \in 1..Len(shelves) |-> CookieShelf_num_of_cookies(shelves[i])])

CookieCabinet_num_of_jars(shelves) ==
    SumNat([i \in 1..Len(shelves) |-> CookieShelf_num_of_jars(shelves[i])])

\* Shelf weights with the equal_size branch giving every Shelf 100 / number of
\* Shelves.
ShelfWeights_per_shelf(shelves, equal_size) ==
    LET total_prob == fsum(ShelfProbabilities(shelves))
    IN  IF total_prob # F(0) THEN shelves
        ELSE IF equal_size
        THEN [i \in 1..Len(shelves) |-> [shelves[i] EXCEPT !.probability = fdiv(F(100), F(Len(shelves)))]]
        ELSE LET prob_per_cookie == fdiv(F(100), F(CookieCabinet_num_of_cookies(shelves)))
             IN  [i \in 1..Len(shelves) |->
                    [shelves[i] EXCEPT !.probability =
                        fmul(F(CookieShelf_num_of_cookies(shelves[i])), prob_per_cookie)]]

\* The first half of CookieCabinet::calculate_prob: the shelves' probabilities.
ShelfWeights(shelves, equal_size) ==
    LET total_prob == fsum(ShelfProbabilities(shelves))
    IN  IF total_prob # F(0) THEN shelves
        ELSE IF equal_size
        THEN LET prob_per_jar == fdiv(F(100), F(CookieCabinet_num_of_jars(shelves)))
             IN  [i \in 1..Len(shelves) |->
                    [shelves[i] EXCEPT !.probability =
                        fmul(prob_per_jar, F(CookieShelf_num_of_jars(shelves[i])))]]
        ELSE LET prob_per_cookie == fdiv(F(100), F(CookieCabinet_num_of_cookies(shelves)))
             IN  [i \in 1..Len(shelves) |->
                    [shelves[i] EXCEPT !.probability =
                        fmul(F(CookieShelf_num_of_cookies(shelves[i])), prob_per_cookie)]]

CookieCabinet_calculate_prob(shelves, equal_size) ==
    LET weighted == ShelfWeights(shelves, equal_size)
    IN  [i \in 1..Len(weighted) |-> CookieShelf_calculate_prob(weighted[i], equal_size)]

CookieCabinet_load(shelves) == [i \in 1..Len(shelves) |-> CookieShelf_load(shelves[i])]

CookieCabinet_filter(shelves, sieve) ==
    LET filtered == [i \in 1..Len(shelves) |-> CookieShelf_filter(shelves[i], sieve)]
    IN  SelectSeq(filtered, LAMBDA sh : CookieShelf_num_of_jars(sh) > 0)

-----------------------------------------------------------------------------
(* Sampling.  WeightedIndex::new(weights) fails (and the unwrap() panics) on  *)
(* an empty list, on a weight that is not >= 0 (NaN) and on a zero total; an  *)
(* infinite total panics in the sampler.  sample() returns an index whose     *)
(* weight is positive.                                                        *)

WeightedIndex_fails(weights) ==
    \/ weights = <<>>
    \/ \E i \in 1..Len(weights) : ~fge(weights[i], F(0))
    \/ fsum(weights) = F(0)
    \/ is_inf(fsum(weights))

WeightedIndex_sample(weights) == {i \in 1..Len(weights) : fgt(weights[i], F(0))}

Some(s, j, k) == [status |-> "some", at |-> <<s, j, k>>]

None == [status |-> "none", at |-> <<0, 0, 0>>]

Panic == [status |-> "abort", at |-> <<0, 0, 0>>]

\* A draw that only ever yields the first cookie of the Jar.
CookieJar_choose_first(jr, s, j) ==
    IF jr.cookies = <<>> THEN {None} ELSE {Some(s, j, 1)}

\* self.cookies.choose(rng): the outcomes for Jar j of Shelf s.
CookieJar_choose(jr, s, j) ==
    IF jr.cookies = <<>> THEN {None} ELSE {Some(s, j, k) : k \in 1..Len(jr.cookies)}

CookieShelf_choose(shelf, s) ==
    LET weights == JarProbabilities(shelf)
    IN  IF WeightedIndex_fails(weights) THEN {Panic}
        ELSE UNION {CookieJar_choose(shelf.jars[j], s, j) : j \in WeightedIndex_sample(weights)}

\* The outcomes CookieCabinet::choose can produce.
CookieCabinet_choose(shelves) ==
    LET weights == ShelfProbabilities(shelves)
    IN  IF WeightedIndex_fails(weights) THEN {Panic}
        ELSE UNION {CookieShelf_choose(shelves[s], s) : s \in WeightedIndex_sample(weights)}

-----------------------------------------------------------------------------
(* SpecCabinet: a Cabinet is built from `[N%] location ...`, loaded, then     *)
(* filtered and normalized in any order, and sampled once normalized.         *)

MaxShelves == 2

MaxOps == 3

ShelfWeightTokens == {<<>>, <<Pct(40)>>, <<Pct(60)>>, <<Pct(100)>>}

ShelfArguments == {w \o <<Loc(l)>> : w \in ShelfWeightTokens, l \in Locations}

CabinetArguments == {Flatten(a) : a \in SeqsUpTo(ShelfArguments, MaxShelves)}

InitCabinet ==
    /\ pc = "items"
    /\ items \in CabinetArguments
    /\ jar = NoJar
    /\ platform = "Linux"
    /\ bytes = <<>>
    /\ decoded = Aborted
    /\ detected = "none"
    /\ host = "linux"
    /\ text = <<>>
    /\ delim = DEFAULT_DELIMITER
    /\ built = NoBuilt
    /\ cabinet = <<>>
    /\ chosen = NoChosen
    /\ ops = <<>>
    /\ before = <<>>
    /\ filter = <<>>
    /\ admitted = FALSE
    /\ value = U64_ZERO
    /\ restored = U64_ZERO
    /\ metadata = NoMetadata
    /\ reloaded = NoReloaded

Load ==
    /\ pc = "built"
    /\ cabinet' = CookieCabinet_load(cabinet)
    /\ pc' = "loaded"
    /\ UNCHANGED <<jar, platform, bytes, decoded, detected, host, text, delim, items, built, chosen, ops, before, filter, admitted, value, restored, metadata, reloaded>>

ApplySieve ==
    /\ pc \in {"loaded", "filtered", "normalized"}
    /\ Len(ops) < MaxOps
    /\ \E sieve \in Sieves :
          /\ cabinet' = CookieCabinet_filter(cabinet, sieve)
          /\ filter' = sieve
    /\ before' = cabinet
    /\ ops' = Append(ops, "filter")
    /\ pc' = "filtered"
    /\ UNCHANGED <<jar, platform, bytes, decoded, detected, host, text, delim, items, built, chosen, admitted, value, restored, metadata, reloaded>>

CalculateProb ==
    /\ pc \in {"loaded", "filtered", "normalized"}
    /\ Len(ops) < MaxOps
    /\ \E equal_size \in BOOLEAN :
          /\ cabinet' = CookieCabinet_calculate_prob(cabinet, equal_size)
          /\ ops' = Append(ops, IF equal_size THEN "calculate_prob(true)" ELSE "calculate_prob(false)")
    /\ before' = cabinet
    /\ pc' = "normalized"
    /\ UNCHANGED <<jar, platform, bytes, decoded, detected, host, text, delim, items, built, chosen, filter, admitted, value, restored, metadata, reloaded>>

Choose ==
    /\ pc = "normalized"
    /\ chosen' \in CookieCabinet_choose(cabinet)
    /\ pc' = "chosen"
    /\ UNCHANGED <<jar, platform, bytes, decoded, detected, host, text, delim, items, built, cabinet, ops, before, filter, admitted, value, restored, metadata, reloaded>>

NextCabinet == FromStringList \/ Load \/ ApplySieve \/ CalculateProb \/ Choose

SpecCabinet == InitCabinet /\ [][NextCabinet]_vars

-----------------------------------------------------------------------------
(* Properties of the codec (SpecCodec).                                       *)

Offsets(j) == [i \in 1..Len(j.cookies) |-> j.cookies[i].offset]

\* The fields the wire format carries, compared between two Jars.
SameWireFields(a, b) ==
    /\ Len(a.cookies) = Len(b.cookies)
    /\ Offsets(a) = Offsets(b)
    /\ a.flags = b.flags
    /\ a.delim = b.delim
    /\ a.max_length = b.max_length
    /\ a.min_length = b.min_length
    /\ a.file_size = b.file_size

\* What layout t can carry: 32-bit header fields, a one-byte delimiter, offsets
\* and file_size of 32 bits (64 in the FreeBSD layout), and an offset of its own
\* on every cookie whose position in the conceptual text is not 0.
Representable(j, t) ==
    /\ FitsU32(j.max_length) /\ FitsU32(j.min_length) /\ FitsU32(j.flags)
    /\ j.delim < 256
    /\ t # "FreeBSD" => FitsU32(j.file_size)
    /\ \A i \in 1..Len(j.cookies) :
          /\ t # "FreeBSD" => FitsU32(j.cookies[i].offset)
          /\ i > 1 => j.cookies[i].offset # U64_ZERO

\* C1 (as stated): for every layout and every Jar, from_bytes(to_bytes(jar, P), P)
\* has the offsets, count, flags, delim, max_length, min_length and file_size of jar.
C1_RoundTripEveryJar ==
    pc = "decoded" => decoded.status = "ok" /\ SameWireFields(jar, decoded.jar)

\* C1 (amended): the round trip preserves those fields for every Jar the layout
\* can carry: fields that fit the layout's widths, a one-byte delimiter, and a
\* nonzero offset on every cookie after the first.
C1_RoundTripRepresentable ==
    pc = "decoded" /\ Representable(jar, platform)
        => decoded.status = "ok" /\ SameWireFields(jar, decoded.jar)

C1_Witness ==
    /\ pc = "decoded"
    /\ Representable(jar, platform)
    /\ platform = "Homebrew"
    /\ Len(jar.cookies) = 2
    /\ jar.cookies[1].offset = U64_ZERO
    /\ decoded.status = "ok"

-----------------------------------------------------------------------------
(* Properties of the detector (SpecDetect).                                   *)

\* The bytes b[a..a+4] are there and equal w.
WordAt(b, a, w) == Len(b) >= a + 4 /\ \A k \in 1..4 : b[a + k] = w[k]

\* The bytes b[a..a+4] are there and not all zero.
NonzeroWordAt(b, a) == Len(b) >= a + 4 /\ \E k \in 1..4 : b[a + k] # 0

HomebrewMagic(b) == WordAt(b, 0, WORD1) /\ WordAt(b, 4, WORD0)

FreeBSDMagic(b) == WordAt(b, 0, WORD1) /\ WordAt(b, 24, WORD0) /\ WordAt(b, 32, WORD0)

LinuxMagic(b) ==
    WordAt(b, 0, WORD2) /\ NonzeroWordAt(b, 4) /\ NonzeroWordAt(b, 28) /\ NonzeroWordAt(b, 32)

\* C9: a buffer starting 00 00 00 01 00 00 00 00 is Homebrew whatever follows; a
\* non-Homebrew buffer with version word 1 and zero words at 24 and 32 is FreeBSD;
\* a buffer with version word 2, nonzero count and nonzero words at 28 and 32 is Linux.
C9_MagicPatterns ==
    pc = "detected" =>
        /\ HomebrewMagic(bytes) => detected = "Homebrew"
        /\ ~HomebrewMagic(bytes) /\ FreeBSDMagic(bytes) => detected = "FreeBSD"
        /\ LinuxMagic(bytes) => detected = "Linux"

\* The precedence case: the Homebrew magic on a buffer that also shows the
\* FreeBSD probes, detected on a host whose default is another layout.
C9_Witness ==
    /\ pc = "detected"
    /\ HomebrewMagic(bytes)
    /\ FreeBSDMagic(bytes)
    /\ host = "freebsd"
    /\ detected = "Homebrew"

\* C10: every buffer, of any length, that matches none of the three patterns is
\* given the host's default layout (a tag is returned, the call does not abort).
C10_UnmatchedIsDefault ==
    pc = "detected" /\ ~HomebrewMagic(bytes) /\ ~FreeBSDMagic(bytes) /\ ~LinuxMagic(bytes)
        => detected = Serializer_get_type_by_current_platform(host)

-----------------------------------------------------------------------------
(* Properties of CookieJar::from_text (SpecText).                             *)

\* CRLF and CR become LF, read off the text position by position.
LineEndingsToLF(t) ==
    LET kept == {i \in 1..Len(t) : ~(t[i] = LF /\ i > 1 /\ t[i - 1] = CR)}
        pos(k) == CHOOSE i \in kept : Cardinality({j \in kept : j <= i}) = k
    IN  [k \in 1..Cardinality(kept) |-> IF t[pos(k)] = CR THEN LF ELSE t[pos(k)]]

SeparatorAt(n, i, d) == i + 2 <= Len(n) /\ n[i] = LF /\ n[i + 1] = d /\ n[i + 2] = LF

\* The records of n between separators LF d LF, scanning from position i; the
\* record being read starts at `start`.
RECURSIVE RecordsFrom(_, _, _, _)
RecordsFrom(n, i, start, d) ==
    IF i > Len(n) THEN <<SubSeq(n, start, Len(n))>>
    ELSE IF SeparatorAt(n, i, d)
         THEN <<SubSeq(n, start, i - 1)>> \o RecordsFrom(n, i + 3, i + 3, d)
         ELSE RecordsFrom(n, i + 1, start, d)

EndsWithDelimLine(r, d) == Len(r) >= 2 /\ r[Len(r) - 1] = LF /\ r[Len(r)] = d

\* The records with a trailing LF d taken off the final one.
RecordsStripped(n, d) ==
    LET rs == RecordsFrom(n, 1, 1, d)
        last == rs[Len(rs)]
    IN  [rs EXCEPT ![Len(rs)] = IF EndsWithDelimLine(last, d)
                                THEN SubSeq(last, 1, Len(last) - 2) ELSE last]

\* The records that are neither empty nor whitespace-only, in source order.
SurvivingRecords(t, d) ==
    SelectSeq(RecordsStripped(LineEndingsToLF(t), d),
              LAMBDA r : \E i \in 1..Len(r) : r[i] \notin {9, 10, 11, 12, 13, 32})

Contents(j) == [i \in 1..Len(j.cookies) |-> j.cookies[i].content]

\* C7: from_text normalizes CRLF and CR to LF, splits on LF d LF, strips a trailing
\* LF d from the final record, drops blank records, keeps the others in order as
\* cookies, sets max_length / min_length to the longest / shortest kept length + 1
\* and file_size to the length of the normalized text.
C7_FromText ==
    pc = "parsed" =>
        LET recs == SurvivingRecords(text, delim)
        IN  /\ Contents(jar) = recs
            /\ jar.file_size = U64(Len(LineEndingsToLF(text)))
            /\ recs # <<>> =>
                  /\ \E i \in 1..Len(recs) : jar.max_length = U64(Len(recs[i]) + 1)
                  /\ \E i \in 1..Len(recs) : jar.min_length = U64(Len(recs[i]) + 1)
                  /\ \A i \in 1..Len(recs) :
                        /\ Len(recs[i]) + 1 <= jar.max_length[7] * 256 + jar.max_length[8]
                        /\ Len(recs[i]) + 1 >= jar.min_length[7] * 256 + jar.min_length[8]

\* "a\r\n%\n \r%": a CRLF, a separator, a blank record and a trailing CR %.
C7_Witness ==
    /\ pc = "parsed"
    /\ delim = 37
    /\ text = MixedLineEndings
    /\ Contents(jar) = <<<<97>>>>
    /\ jar.file_size = U64(7)

\* C8 (as stated): "apple\n%\nbanana\n%" with delimiter % gives 2 cookies,
\* max_length 7, min_length 6 and file_size 22.
C8_AppleBanana22 ==
    pc = "parsed" /\ text = AppleBanana /\ delim = 37 =>
        /\ Len(jar.cookies) = 2
        /\ jar.max_length = U64(7)
        /\ jar.min_length = U64(6)
        /\ jar.file_size = U64(22)

\* C8 (amended): the same text gives 2 cookies, max_length 7, min_length 6 and
\* file_size 16, the byte length of the text.
C8_AppleBanana16 ==
    pc = "parsed" /\ text = AppleBanana /\ delim = 37 =>
        /\ Len(jar.cookies) = 2
        /\ jar.max_length = U64(7)
        /\ jar.min_length = U64(6)
        /\ jar.file_size = U64(16)

C8_Witness ==
    /\ pc = "parsed"
    /\ text = AppleBanana
    /\ delim = 37
    /\ Contents(jar) = <<SubSeq(AppleBanana, 1, 5), SubSeq(AppleBanana, 9, 14)>>

-----------------------------------------------------------------------------
(* Properties of CookieCabinet::from_string_list (SpecParse).                 *)

\* The weight the argument list gives the location at position i: the number of
\* the '%' item right before it when that number is positive, else 0.
AssignedWeight(its, i) ==
    IF i > 1 /\ its[i - 1].ends_pct /\ its[i - 1].parsed[2] > 0 THEN its[i - 1].parsed[2] ELSE 0

RECURSIVE SumTo(_, _)
SumTo(its, i) ==
    IF i = 0 THEN 0
    ELSE SumTo(its, i - 1) + (IF its[i].ends_pct THEN 0 ELSE AssignedWeight(its, i))

\* The total of the weights assigned to the shelves (the embedded shelf of an
\* empty list carries 100).
AssignedTotal(its) == IF its = <<>> THEN 100 ELSE SumTo(its, Len(its))

WellFormed(its) == \A i \in 1..Len(its) : its[i].ends_pct => its[i].parsed # PARSE_ERR

\* C6: from_string_list returns an error whenever the shelves' weights sum to a
\* nonzero total more than 1e-4 away from 100, and a Cabinet whenever the total
\* is 0 or within 1e-4 of 100.
C6_PartialWeightsRejected ==
    pc \in {"built", "failed"} /\ WellFormed(items) =>
        LET total == AssignedTotal(items)
        IN  IF total # 0 /\ Abs(total - 100) * 10000 > 1
            THEN built.status = "err"
            ELSE built.status = "ok"

\* 15% x 85% x 10% x
C6_Witness ==
    /\ pc = "failed"
    /\ items = <<Pct(15), Loc("x"), Pct(85), Loc("x"), Pct(10), Loc("x")>>
    /\ built.status = "err"

-----------------------------------------------------------------------------
(* Properties of normalization and sampling (SpecCabinet).  Probabilities are *)
(* exact rationals in the model; the 1e-4 tolerance of the statements covers  *)
(* the rounding of the f64 arithmetic.                                        *)

Within(a, b) == ~is_nan(a) /\ ~is_nan(b) /\ ~is_inf(a) /\ ~is_inf(b) /\ ~fgt(fabs(fsub(a, b)), TOLERANCE)

IsCalculateProb(op) == op \in {"calculate_prob(true)", "calculate_prob(false)"}

EveryShelfHoldsACookie(shelves) ==
    \A s \in 1..Len(shelves) : CookieShelf_num_of_cookies(shelves[s]) > 0

ShelvesSumTo100(shelves) == Within(fsum(ShelfProbabilities(shelves)), F(100))

JarsSumToShelf(shelves) ==
    \A s \in 1..Len(shelves) : Within(fsum(JarProbabilities(shelves[s])), shelves[s].probability)

\* C2: after calculate_prob(equal_size), called directly on a Cabinet that was
\* built by from_string_list and loaded and in which every Shelf holds at least
\* one cookie, the Shelves' probabilities sum to 100.0 within 1e-4 and every
\* Shelf's Jars' probabilities sum to that Shelf's probability.
C2_Normalized ==
    Len(ops) = 1 /\ IsCalculateProb(ops[1]) /\ EveryShelfHoldsACookie(cabinet) =>
        ShelvesSumTo100(cabinet) /\ JarsSumToShelf(cabinet)

\* `40% x 60% y` normalized by jar count: x's two Jars carry 20 each and y's
\* two Jars 30 each.
C2_Witness ==
    /\ items = <<Pct(40), Loc("x"), Pct(60), Loc("y")>>
    /\ ops = <<"calculate_prob(true)">>
    /\ pc = "normalized"
    /\ EveryShelfHoldsACookie(cabinet)
    /\ JarProbabilities(cabinet[1]) = <<F(20), F(20)>>
    /\ JarProbabilities(cabinet[2]) = <<F(30), F(30)>>

\* C3: after any sequence of filter and calculate_prob calls that ends with
\* calculate_prob and leaves at least one cookie in the Cabinet, the remaining
\* Shelves' probabilities sum to 100.0 within 1e-4.
C3_RenormalizeRestores100 ==
    ops # <<>> /\ IsCalculateProb(ops[Len(ops)]) /\ CookieCabinet_num_of_cookies(cabinet) > 0 =>
        ShelvesSumTo100(cabinet)

\* C4: choose on a normalized Cabinet in which at least one Jar contains a
\* cookie returns some Cookie.
C4_ChooseReturnsSome ==
    pc = "chosen" /\ CookieCabinet_num_of_cookies(cabinet) > 0 => chosen.status = "some"

\* The cookies held by a Jar with positive probability inside a Shelf with
\* positive probability, as <<shelf, jar, cookie>> positions.
Eligible(shelves) ==
    UNION {UNION {{<<s, j, k>> : k \in 1..Len(shelves[s].jars[j].cookies)} :
                     j \in {i \in 1..Len(shelves[s].jars) : fgt(shelves[s].jars[i].probability, F(0))}} :
              s \in {i \in 1..Len(shelves) : fgt(shelves[i].probability, F(0))}}

Returnable(shelves) == {o.at : o \in {r \in CookieCabinet_choose(shelves) : r.status = "some"}}

\* C5: on a loaded Cabinet, normalized or not, the cookies choose can return
\* are exactly the cookies held by a Jar with positive probability inside a
\* Shelf with positive probability, and the cookie a call returned is one of
\* them.
C5_Hierarchical ==
    /\ pc \in {"loaded", "filtered", "normalized", "chosen"} => Returnable(cabinet) = Eligible(cabinet)
    /\ pc = "chosen" /\ chosen.status = "some" => chosen.at \in Eligible(cabinet)

\* `100% x y`: Shelf y keeps weight 0 and holds a cookie; the cookie chosen is
\* the second of x's first Jar.
C5_Witness ==
    /\ items = <<Pct(100), Loc("x"), Loc("y")>>
    /\ pc = "chosen"
    /\ ops = <<"calculate_prob(false)">>
    /\ cabinet[2].probability = F(0)
    /\ CookieShelf_num_of_cookies(cabinet[2]) > 0
    /\ chosen = Some(1, 1, 2)

-----------------------------------------------------------------------------
(* Properties of decoding an arbitrary buffer (SpecDecode).                   *)

HeaderSize(t) ==
    CASE t = "Homebrew" -> HEADER_SIZE_HOMEBREW
      [] t = "Linux"    -> HEADER_SIZE_LINUX
      [] t = "FreeBSD"  -> HEADER_SIZE_FREEBSD

EntryWidth(t) == IF t = "Linux" THEN 4 ELSE 8

\* The bytes between the header and the trailing file_size field are not a
\* whole number of offset entries.
Ragged(b, t) ==
    Len(b) >= HeaderSize(t) + EntryWidth(t) /\ (Len(b) - HeaderSize(t)) % EntryWidth(t) # 0

\* The number of offset entries that start before the trailing file_size.
EntriesPresent(b, t) ==
    IF Len(b) - EntryWidth(t) <= HeaderSize(t) THEN 0
    ELSE (Len(b) - EntryWidth(t) - HeaderSize(t) + EntryWidth(t) - 1) \div EntryWidth(t)

\* The count field of b read in layout t, as a number.
DeclaredCount(b, t) ==
    CHOOSE c \in 0..(MaxEntries + 1) :
        \/ c <= MaxEntries /\ CountField(t, c) = SubSeq(b, (IF t = "Homebrew" THEN 9 ELSE 5),
                                                          (IF t = "Homebrew" THEN 16 ELSE 8))
        \/ c = MaxEntries + 1 /\ \A d \in 0..MaxEntries :
              CountField(t, d) # SubSeq(b, (IF t = "Homebrew" THEN 9 ELSE 5),
                                           (IF t = "Homebrew" THEN 16 ELSE 8))

\* C11: from_bytes reports an error value, and does not abort, when the buffer
\* is shorter than the fixed header of the requested layout or when the bytes
\* between the header and the file_size field are not a whole number of offset
\* entries.
C11_MalformedIsReported ==
    pc = "decoded" /\ (Len(bytes) < HeaderSize(platform) \/ Ragged(bytes, platform)) =>
        decoded.status = "err"

\* C12: Linux-layout from_bytes rejects (its assert! panics on) every buffer
\* whose count field differs from the number of offset entries present, and
\* accepts a buffer of at least 21 bytes whose count agrees; Homebrew-layout
\* from_bytes accepts every buffer of at least 48 bytes and returns one cookie
\* per offset entry present, whatever the count field holds.
C12_CountCheckedOnLinuxOnly ==
    pc = "decoded" =>
        /\ platform = "Linux" /\ Len(bytes) >= 21 =>
              (decoded.status = "abort") = (DeclaredCount(bytes, "Linux") # EntriesPresent(bytes, "Linux"))
        /\ platform = "Homebrew" /\ Len(bytes) >= HEADER_SIZE_HOMEBREW =>
              /\ decoded.status = "ok"
              /\ Len(decoded.jar.cookies) = EntriesPresent(bytes, "Homebrew")

\* A Homebrew index of two offsets whose count field holds 0 decodes to two
\* cookies.
C12_Witness ==
    /\ pc = "decoded"
    /\ platform = "Homebrew"
    /\ Len(bytes) = HEADER_SIZE_HOMEBREW + 16 + 8
    /\ DeclaredCount(bytes, "Homebrew") = 0
    /\ decoded.status = "ok"
    /\ Len(decoded.jar.cookies) = 2

-----------------------------------------------------------------------------
(* Properties of the bytes written by to_bytes (SpecCodec).                   *)

\* The i-th entry of the offset table of b (i from 1).
EntryBytes(b, t, i) ==
    SubSeq(b, HeaderSize(t) + (i - 1) * EntryWidth(t) + 1, HeaderSize(t) + i * EntryWidth(t))

\* The sum of len(content) + 3 over the cookies before the i-th.
PriorLengths(cookies, i) == SumNat([j \in 1..(i - 1) |-> Len(cookies[j].content) + 3])

\* The offset to_bytes is to write for the i-th cookie.
OffsetToWrite(cookies, i) ==
    IF cookies[i].offset # U64_ZERO THEN cookies[i].offset ELSE U64(PriorLengths(cookies, i))

\* The low 32 bits of a 64-bit value, as four big-endian bytes.
Low32(x) == SubSeq(x, 5, 8)

\* The number an entry holds, as a 64-bit value.
EntryValue(e, t) ==
    CASE t = "Homebrew" -> <<0, 0, 0, 0>> \o SubSeq(e, 1, 4)
      [] t = "Linux"    -> <<0, 0, 0, 0>> \o e
      [] t = "FreeBSD"  -> e

\* C13 as stated: in every layout the i-th entry holds the cookie's stored
\* offset when that is nonzero, and otherwise the sum of len(content) + 3 over
\* the cookies before it.
C13_OffsetsVerbatim ==
    pc \in {"encoded", "decoded"} =>
        \A i \in 1..Len(jar.cookies) :
            EntryValue(EntryBytes(bytes, platform, i), platform) = OffsetToWrite(jar.cookies, i)

\* C13: the i-th entry holds the cookie's stored offset when that is nonzero,
\* and otherwise the sum of len(content) + 3 over all cookies before it, in
\* the layout's field: the value itself in the FreeBSD layout, its low 32 bits
\* in the Linux layout, and its low 32 bits followed by four zero bytes in the
\* Homebrew layout.
C13_OffsetsWritten ==
    pc \in {"encoded", "decoded"} =>
        \A i \in 1..Len(jar.cookies) :
            EntryBytes(bytes, platform, i) =
                CASE platform = "Homebrew" -> Low32(OffsetToWrite(jar.cookies, i)) \o <<0, 0, 0, 0>>
                  [] platform = "Linux"    -> Low32(OffsetToWrite(jar.cookies, i))
                  [] platform = "FreeBSD"  -> OffsetToWrite(jar.cookies, i)

\* A first cookie "ab" that carries offset 2^32 + 5 and a second without an
\* offset, in the Linux layout: both entries hold 5.
C13_Witness ==
    /\ pc = "encoded"
    /\ platform = "Linux"
    /\ jar.cookies = <<Cookie("", <<97, 98>>, BIG_PLUS_5), Cookie("", <<>>, U64_ZERO)>>
    /\ EntryBytes(bytes, "Linux", 1) = <<0, 0, 0, 5>>
    /\ EntryBytes(bytes, "Linux", 2) = <<0, 0, 0, 5>>

\* The layout of spec 4.1 in numbers: header size, delimiter index, field width.
LayoutHeader(t) == IF t = "Homebrew" THEN 48 ELSE 24

LayoutDelimIndex(t) == IF t = "Homebrew" THEN 40 ELSE 20

LayoutWidth(t) == IF t = "Linux" THEN 4 ELSE 8

\* The offset or file_size field of layout t holding x.
LayoutField(t, x) ==
    CASE t = "Homebrew" -> Low32(x) \o <<0, 0, 0, 0>>
      [] t = "Linux"    -> Low32(x)
      [] t = "FreeBSD"  -> x

\* C14: for a Jar of n cookies to_bytes produces 48 + 8n + 8 bytes in the
\* Homebrew layout, 24 + 4n + 4 in the Linux layout and 24 + 8n + 8 in the
\* FreeBSD layout; the delimiter byte sits at index 40 / 20 / 20 and only zero
\* bytes follow it up to the offset table, which starts at byte 48 / 24 / 24;
\* the last 8 / 4 / 8 bytes are the file_size field.
C14_Layout ==
    pc \in {"encoded", "decoded"} =>
        LET n == Len(jar.cookies)
            h == LayoutHeader(platform)
            w == LayoutWidth(platform)
            d == LayoutDelimIndex(platform)
        IN  /\ Len(bytes) = h + w * n + w
            /\ bytes[d + 1] = jar.delim % 256
            /\ \A i \in (d + 2)..h : bytes[i] = 0
            /\ \A i \in 1..n :
                  SubSeq(bytes, h + (i - 1) * w + 1, h + i * w) = LayoutField(platform, OffsetToWrite(jar.cookies, i))
            /\ SubSeq(bytes, Len(bytes) - w + 1, Len(bytes)) = LayoutField(platform, jar.file_size)

\* A Jar of two cookies with delimiter % in the Homebrew layout: 72 bytes, the
\* delimiter at index 40, file_size 22 in the last 8 bytes.
C14_Witness ==
    /\ pc = "encoded"
    /\ platform = "Homebrew"
    /\ Len(jar.cookies) = 2
    /\ jar.delim = 37
    /\ jar.file_size = U64(22)
    /\ Len(bytes) = 72
    /\ bytes[41] = 37
    /\ SubSeq(bytes, 65, 72) = <<0, 0, 0, 22, 0, 0, 0, 0>>

-----------------------------------------------------------------------------
(* Properties of the truncated 8-byte encoding (SpecHtonl).  A 64-bit value   *)
(* is its eight bytes, most significant first, so n mod 2^32 is bytes 5..8.   *)

\* C15: u64_htonl_to_bytes(n) is the four big-endian bytes of n mod 2^32
\* followed by four zero bytes, and u64_ntohl_from_bytes of those bytes is
\* n mod 2^32.
C15_Htonl ==
    /\ pc \in {"net", "host"} => bytes = <<value[5], value[6], value[7], value[8], 0, 0, 0, 0>>
    /\ pc = "host" => restored = <<0, 0, 0, 0, value[5], value[6], value[7], value[8]>>

\* 0x0101010190FF0001 is written as 90 FF 00 01 00 00 00 00 and read back as
\* 0x0000000090FF0001.
C15_Witness ==
    /\ pc = "host"
    /\ value = <<1, 1, 1, 1, 144, 255, 0, 1>>
    /\ bytes = <<144, 255, 0, 1, 0, 0, 0, 0>>
    /\ restored = <<0, 0, 0, 0, 144, 255, 0, 1>>

-----------------------------------------------------------------------------
(* Properties of the Sieve (SpecSieve).                                       *)

\* The predicates added to a Sieve, without their order.
Added(sieve) == {sieve[i] : i \in 1..Len(sieve)}

\* q holds the predicates of sieve, each as often, in some order.
Reordered(q, sieve) ==
    /\ Len(q) = Len(sieve)
    /\ \A f \in Predicates :
          Cardinality({i \in 1..Len(q) : q[i] = f}) = Cardinality({i \in 1..Len(sieve) : sieve[i] = f})

\* C16: CookieSieve::filter(text) is true if and only if every predicate added
\* to the Sieve returns true for text; a Sieve with no predicates admits every
\* text; and the result is the same for every order in which the same
\* predicates were added.
C16_SieveIsConjunction ==
    pc = "asked" =>
        /\ admitted = (\A f \in Added(filter) : Predicate(f, text))
        /\ filter = <<>> => admitted
        /\ \A q \in SeqsUpTo(Predicates, MaxPredicates) :
              Reordered(q, filter) => CookieSieve_filter(q, text) = admitted

\* "bb" asked of a Sieve holding contains_a and long is refused: it passes
\* long and fails contains_a.
C16_Witness ==
    /\ pc = "asked"
    /\ filter = <<"contains_a", "long">>
    /\ text = <<98, 98>>
    /\ ~admitted
    /\ Predicate("long", text)

-----------------------------------------------------------------------------
(* Properties of filtering and of the weights (SpecCabinet).  `before` is the *)
(* Cabinet as it was when the last call was made.                             *)

LastOp == IF ops = <<>> THEN "none" ELSE ops[Len(ops)]

\* The cookies of a Cabinet in Shelf, Jar and Jar-internal order.
AllCookies(shelves) ==
    Flatten([s \in 1..Len(shelves) |->
                Flatten([j \in 1..Len(shelves[s].jars) |-> shelves[s].jars[j].cookies])])

\* C17: after CookieCabinet::filter(sieve) every remaining Shelf holds at least
\* one Jar, every remaining Jar holds at least one Cookie, and the cookies that
\* remain are the previously present cookies whose content the Sieve admits,
\* in their original relative order.
C17_FilterKeepsAdmitted ==
    LastOp = "filter" =>
        /\ \A s \in 1..Len(cabinet) :
              /\ Len(cabinet[s].jars) >= 1
              /\ \A j \in 1..Len(cabinet[s].jars) : Len(cabinet[s].jars[j].cookies) >= 1
        /\ AllCookies(cabinet) =
              SelectSeq(AllCookies(before), LAMBDA c : \A i \in 1..Len(filter) : Predicate(filter[i], c.content))

\* `x y` filtered for texts shorter than 2: Shelf y is pruned and both Jars of
\* x keep their "a".
C17_Witness ==
    /\ items = <<Loc("x"), Loc("y")>>
    /\ ops = <<"filter">>
    /\ filter = <<"short">>
    /\ Len(before) = 2
    /\ Len(AllCookies(before)) = 4
    /\ Len(cabinet) = 1
    /\ Len(cabinet[1].jars) = 2
    /\ Len(AllCookies(cabinet)) = 2

\* No Shelf carried a weight when the last call was made.
NoShelfWeighted == \A s \in 1..Len(before) : before[s].probability = F(0)

JarsOf(shelves) == SumNat([s \in 1..Len(shelves) |-> Len(shelves[s].jars)])

CookiesOfShelf(shelf) == SumNat([j \in 1..Len(shelf.jars) |-> Len(shelf.jars[j].cookies)])

CookiesOf(shelves) == SumNat([s \in 1..Len(shelves) |-> CookiesOfShelf(shelves[s])])

\* The proportional half of C18: calculate_prob(false) on a Cabinet without
\* weights that holds a cookie gives each Shelf 100 x its cookies / all cookies.
ProportionalShelves ==
    LastOp = "calculate_prob(false)" /\ NoShelfWeighted /\ CookiesOf(before) > 0 =>
        \A s \in 1..Len(cabinet) :
            cabinet[s].probability = Rat(100 * CookiesOfShelf(before[s]), CookiesOf(before))

\* C18 as stated: without weights calculate_prob(true) gives each Shelf
\* 100 / number of Shelves, and calculate_prob(false) gives each Shelf
\* 100 x its cookie count / the Cabinet's cookie count.
C18_EqualAmongShelves ==
    /\ LastOp = "calculate_prob(true)" /\ NoShelfWeighted =>
          \A s \in 1..Len(cabinet) : cabinet[s].probability = Rat(100, Len(before))
    /\ ProportionalShelves

\* C18: without weights calculate_prob(true) gives each Shelf 100 x its number
\* of Jars / the Cabinet's number of Jars, and calculate_prob(false) on a
\* Cabinet that holds a cookie gives each Shelf 100 x its cookie count / the
\* Cabinet's cookie count.
C18_EqualAmongJars ==
    /\ LastOp = "calculate_prob(true)" /\ NoShelfWeighted =>
          \A s \in 1..Len(cabinet) :
              cabinet[s].probability = Rat(100 * Len(before[s].jars), JarsOf(before))
    /\ ProportionalShelves

\* `x z` by jar count: x has two Jars and gets 200/3, z has one and gets 100/3.
C18_Witness ==
    /\ items = <<Loc("x"), Loc("z")>>
    /\ ops = <<"calculate_prob(true)">>
    /\ NoShelfWeighted
    /\ cabinet[1].probability = Rat(200, 3)
    /\ cabinet[2].probability = Rat(100, 3)

\* C19: without weights and with equal_size, after calculate_prob every Jar of
\* the Cabinet, a Jar with zero cookies included, has probability
\* 100 / (number of Jars in the Cabinet), and each Shelf's probability is that
\* value times its number of Jars.
C19_EveryJarEqual ==
    LastOp = "calculate_prob(true)" /\ NoShelfWeighted =>
        \A s \in 1..Len(cabinet) :
            /\ \A j \in 1..Len(cabinet[s].jars) :
                  cabinet[s].jars[j].probability = Rat(100, JarsOf(before))
            /\ cabinet[s].probability = fmul(Rat(100, JarsOf(before)), F(Len(cabinet[s].jars)))

\* `y z` by jar count: the Jar with a cookie and the two empty Jars get 100/3
\* each.
C19_Witness ==
    /\ items = <<Loc("y"), Loc("z")>>
    /\ ops = <<"calculate_prob(true)">>
    /\ Len(cabinet[1].jars[2].cookies) = 0
    /\ cabinet[1].jars[1].probability = Rat(100, 3)
    /\ cabinet[1].jars[2].probability = Rat(100, 3)
    /\ cabinet[2].jars[1].probability = Rat(100, 3)
    /\ cabinet[1].probability = Rat(200, 3)

\* C20: after calculate_prob on a Shelf of positive probability w each Jar has
\* w / (number of Jars) when equal_size is true and, on a Shelf that holds a
\* cookie, w x (the Jar's cookie count) / (the Shelf's cookie count) when it is
\* false.
C20_JarsOfShelf ==
    \A s \in 1..Len(cabinet) :
        LET w == cabinet[s].probability
            jars == cabinet[s].jars
        IN  w[1] = "num" /\ w[2] > 0 =>
              /\ LastOp = "calculate_prob(true)" =>
                    \A j \in 1..Len(jars) : jars[j].probability = Rat(w[2], w[3] * Len(jars))
              /\ LastOp = "calculate_prob(false)" /\ CookiesOfShelf(cabinet[s]) > 0 =>
                    \A j \in 1..Len(jars) :
                        jars[j].probability = Rat(w[2] * Len(jars[j].cookies), w[3] * CookiesOfShelf(cabinet[s]))

\* `40% x 60% y` by cookie count: x's Jars hold 2 and 1 cookies and get 80/3
\* and 40/3.
C20_Witness ==
    /\ items = <<Pct(40), Loc("x"), Pct(60), Loc("y")>>
    /\ ops = <<"calculate_prob(false)">>
    /\ cabinet[1].probability = F(40)
    /\ JarProbabilities(cabinet[1]) = <<Rat(80, 3), Rat(40, 3)>>

-----------------------------------------------------------------------------
(* Properties of the length fields of a Jar (SpecText, SpecCabinet).          *)

\* C21: a Jar that from_text returns without cookies has min_length equal to
\* the u64::MAX sentinel of CookieJar::default() and max_length 0.
C21_EmptyJarSentinel ==
    /\ CookieJar_default.cookies = <<>>
    /\ CookieJar_default.min_length = U64_MAX
    /\ CookieJar_default.max_length = U64_ZERO
    /\ pc = "parsed" /\ jar.cookies = <<>> =>
          jar.min_length = U64_MAX /\ jar.max_length = U64_ZERO

ContentLengths(j) == {Len(j.cookies[i].content) : i \in 1..Len(j.cookies)}

\* C22: every non-empty Jar of a loaded Cabinet, whatever filter calls were
\* made since, has max_length and min_length equal to the length of its
\* longest and of its shortest cookie content plus 1.
C22_LengthsFollowFilter ==
    \A s \in 1..Len(cabinet) :
        \A j \in 1..Len(cabinet[s].jars) :
            LET jr == cabinet[s].jars[j]
            IN  jr.cookies # <<>> =>
                  /\ jr.max_length = U64(Max(ContentLengths(jr)) + 1)
                  /\ jr.min_length = U64(Min(ContentLengths(jr)) + 1)

-----------------------------------------------------------------------------
(* Properties of the argument errors of from_string_list (SpecParse).         *)

\* A token ending in '%' whose prefix is not a number.
MalformedWeight(its) == \E i \in 1..Len(its) : its[i].ends_pct /\ its[i].parsed = PARSE_ERR

\* Two weight tokens in a row, or a weight token after the last location.
WeightWithoutLocation(its) ==
    \E i \in 1..Len(its) : its[i].ends_pct /\ (i = Len(its) \/ its[i + 1].ends_pct)

\* C23: from_string_list returns an error result, and neither aborts nor
\* accepts the input, for a malformed weight token and whenever a weight token
\* is not followed by a location.
C23_ConfigErrors ==
    pc \in {"built", "failed"} /\ (MalformedWeight(items) \/ WeightWithoutLocation(items)) =>
        built.status = "err"

-----------------------------------------------------------------------------
(* Properties of the empty Cabinet (SpecCabinet) and of the all-zero buffer   *)
(* (SpecDetect).                                                              *)

\* C24: when the Cabinet is empty after load and filter, choose returns None
\* or an error; it does not abort.
C24_EmptyCabinetIsReported ==
    pc = "chosen" /\ cabinet = <<>> => chosen.status \in {"none", "err"}

\* 24 zero bytes.
ZEROS_24 == [i \in 1..24 |-> 0]

\* C25: get_type_by_bytes on a 24-byte buffer of zeros returns the default
\* layout of the host and does not abort.
C25_ZerosAreDefault ==
    pc = "detected" /\ bytes = ZEROS_24 =>
        /\ detected # "abort"
        /\ detected = (CASE host = "macos"   -> "Homebrew"
                         [] host = "freebsd" -> "FreeBSD"
                         [] OTHER            -> "Linux")

\* The 24 zero bytes detected on macOS: Homebrew, the default there.
C25_Witness ==
    /\ pc = "detected"
    /\ bytes = ZEROS_24
    /\ host = "macos"
    /\ detected = "Homebrew"

-----------------------------------------------------------------------------
(* Properties of the index written for a text (SpecIndex).                    *)

\* The position (from 0) in n at which each record separated by LF d LF begins.
RECURSIVE RecordStartsFrom(_, _, _, _)
RecordStartsFrom(n, i, start, d) ==
    IF i > Len(n) THEN <<start - 1>>
    ELSE IF SeparatorAt(n, i, d)
         THEN <<start - 1>> \o RecordStartsFrom(n, i + 3, i + 3, d)
         ELSE RecordStartsFrom(n, i + 1, start, d)

\* The positions at which the surviving records begin in the normalized text.
SurvivingStarts(t, d) ==
    LET n == LineEndingsToLF(t)
        rs == RecordsStripped(n, d)
        starts == RecordStartsFrom(n, 1, 1, d)
        kept == SelectSeq([i \in 1..Len(rs) |-> i],
                          LAMBDA i : \E k \in 1..Len(rs[i]) : rs[i][k] \notin {9, 10, 11, 12, 13, 32})
    IN  [k \in 1..Len(kept) |-> starts[kept[k]]]

\* C26: the offset to_bytes writes for each cookie of a Jar built by from_text
\* is the byte position at which the cookie's content begins in the normalized
\* text.
C26_OffsetsArePositions ==
    pc = "written" =>
        \A i \in 1..Len(jar.cookies) :
            EntryValue(EntryBytes(bytes, platform, i), platform) = U64(SurvivingStarts(text, delim)[i])

-----------------------------------------------------------------------------
(* Properties of the metadata.rs index codec (SpecMetadata).                  *)

QuoteOffsets(d) == [i \in 1..Len(d.quotes) |-> d.quotes[i].offset]

\* C27: in the Linux and FreeBSD layouts of metadata.rs, reading back what
\* to_bytes wrote for a CookieMetadata whose num_quotes is the length of its
\* quotes succeeds and yields the same num_quotes, quote offsets, flags, delim,
\* max_length, min_length and file_size.
C27_MetadataRoundTrip ==
    (/\ pc = "reloaded"
     /\ platform \in {"Linux", "FreeBSD"}
     /\ metadata.num_quotes = U64(Len(metadata.quotes)))
    => /\ reloaded.status = "ok"
       /\ reloaded.data.num_quotes = metadata.num_quotes
       /\ QuoteOffsets(reloaded.data) = QuoteOffsets(metadata)
       /\ reloaded.data.flags = metadata.flags
       /\ reloaded.data.delim = metadata.delim
       /\ reloaded.data.max_length = metadata.max_length
       /\ reloaded.data.min_length = metadata.min_length
       /\ reloaded.data.file_size = metadata.file_size

\* The same round trip in the Homebrew layout, whose header is 48 bytes on
\* both sides.
C27_HomebrewRoundTrip ==
    (pc = "reloaded" /\ platform = "Homebrew")
    => /\ reloaded.status = "ok"
       /\ reloaded.data.num_quotes = metadata.num_quotes
       /\ QuoteOffsets(reloaded.data) = QuoteOffsets(metadata)
       /\ reloaded.data.file_size = metadata.file_size

\* What happens in the two layouts of the claim: Linux always stops at the
\* assert!, FreeBSD returns one quote too many.
C27_LinuxAlwaysAborts ==
    (pc = "reloaded" /\ platform = "Linux") => reloaded.status = "abort"

C27_FreeBSDOneMore ==
    (pc = "reloaded" /\ platform = "FreeBSD")
    => reloaded.status = "ok" /\ Len(reloaded.data.quotes) = Len(metadata.quotes) + 1

-----------------------------------------------------------------------------
(* Properties of detection on written bytes (SpecDat).                        *)

\* C28: for every Jar whose version field is 0, with any number of cookies,
\* and for each layout P, get_type_by_bytes(to_bytes(jar, P)) returns P
\* without aborting.
C28_DetectorAgreesWithEncoder ==
    (pc = "sniffed" /\ jar.version = U64_ZERO) => detected = platform

\* What the detector returns on written bytes in particular cases: the
\* Homebrew layout, the empty FreeBSD and Linux indexes, and the Linux index
\* of one cookie.
C28_HomebrewAgrees ==
    (pc = "sniffed" /\ jar.version = U64_ZERO /\ platform = "Homebrew") => detected = "Homebrew"

C28_EmptyFreeBSDReadsAsHomebrew ==
    (pc = "sniffed" /\ jar.version = U64_ZERO /\ platform = "FreeBSD" /\ jar.cookies = <<>>)
    => detected = "Homebrew"

C28_EmptyLinuxFollowsHost ==
    (pc = "sniffed" /\ jar.version = U64_ZERO /\ platform = "Linux" /\ jar.cookies = <<>>)
    => detected = Serializer_get_type_by_current_platform(host)

C28_OneCookieLinuxAborts ==
    (pc = "sniffed" /\ jar.version = U64_ZERO /\ platform = "Linux" /\ Len(jar.cookies) = 1)
    => detected = "abort"

-----------------------------------------------------------------------------
(* Properties of repeated normalization and of the frame of filter           *)
(* (SpecCabinet).                                                             *)

EqualSizeOf(op) == op = "calculate_prob(true)"

Unweighted(shelves) == \A s \in 1..Len(shelves) : shelves[s].probability = F(0)

TwoCalculateProbs ==
    /\ built.status = "ok"
    /\ Unweighted(built.shelves)
    /\ Len(ops) = 2
    /\ IsCalculateProb(ops[1])
    /\ IsCalculateProb(ops[2])

\* C29: on a Cabinet with no user-assigned weights, calculate_prob(a) followed
\* by calculate_prob(b) leaves the same Shelf and Jar probabilities as a single
\* calculate_prob(b), for all booleans a and b.
C29_LastCallDecides ==
    TwoCalculateProbs =>
        cabinet = CookieCabinet_calculate_prob(CookieCabinet_load(built.shelves), EqualSizeOf(ops[2]))

\* The case of the same flag twice: the second call changes nothing.
C29_SameFlagTwice ==
    TwoCalculateProbs /\ ops[1] = ops[2] =>
        /\ cabinet = before
        /\ cabinet = CookieCabinet_calculate_prob(CookieCabinet_load(built.shelves), EqualSizeOf(ops[2]))

\* The Jar j is the Jar k with some cookies removed and nothing else changed.
SameJarFewerCookies(j, k) ==
    /\ j.location = k.location
    /\ j.probability = k.probability
    /\ j.platform = k.platform
    /\ j.version = k.version
    /\ j.flags = k.flags
    /\ j.delim = k.delim
    /\ j.max_length = k.max_length
    /\ j.min_length = k.min_length
    /\ j.file_size = k.file_size
    /\ \A c \in 1..Len(j.cookies) : \E d \in 1..Len(k.cookies) : j.cookies[c] = k.cookies[d]

\* The Shelf sh is the Shelf old with some Jars and cookies removed.
SameShelfFewerJars(sh, old) ==
    /\ sh.location = old.location
    /\ sh.probability = old.probability
    /\ \A j \in 1..Len(sh.jars) : \E k \in 1..Len(old.jars) : SameJarFewerCookies(sh.jars[j], old.jars[k])

\* C30: CookieCabinet::filter changes membership only: every Shelf and Jar
\* that survives keeps its probability and location, the Jar keeps version,
\* flags, delim, max_length, min_length and file_size, and every surviving
\* Cookie keeps its content, location and offset.
C30_FilterChangesMembershipOnly ==
    LastOp = "filter" =>
        \A s \in 1..Len(cabinet) : \E t \in 1..Len(before) : SameShelfFewerJars(cabinet[s], before[t])

\* `x y` normalized by cookie count and then filtered for texts shorter than
\* 2: Shelf y is pruned, Shelf x keeps 75 and its Jars 50 and 25, and the Jar
\* apple, which lost "bb", keeps the lengths measured with it.
C30_Witness ==
    /\ items = <<Loc("x"), Loc("y")>>
    /\ ops = <<"calculate_prob(false)", "filter">>
    /\ filter = <<"short">>
    /\ Len(before) = 2
    /\ Len(before[1].jars[1].cookies) = 2
    /\ Len(cabinet) = 1
    /\ cabinet[1].probability = F(75)
    /\ JarProbabilities(cabinet[1]) = <<F(50), F(25)>>
    /\ Len(cabinet[1].jars[1].cookies) = 1
    /\ cabinet[1].jars[1].max_length = before[1].jars[1].max_length
    /\ cabinet[1].jars[1].min_length = before[1].jars[1].min_length

\* `x y` normalized by jar count and then by cookie count: the Shelves stay at
\* 50 and 50, where a single calculate_prob(false) gives 75 and 25.
C29_Example ==
    /\ items = <<Loc("x"), Loc("y")>>
    /\ ops = <<"calculate_prob(true)", "calculate_prob(false)">>
    /\ ShelfProbabilities(cabinet) = <<F(50), F(50)>>
    /\ ShelfProbabilities(CookieCabinet_calculate_prob(CookieCabinet_load(built.shelves), FALSE))
          = <<F(75), F(25)>>

=============================================================================
